---- MODULE Spec2Model ----
(***************************************************************************)
(* Model of the Tegra210 UART driver (libtegra/src/uart/mod.rs).           *)
(*                                                                         *)
(* One UART instance is modelled: its register block as seen through the   *)
(* register accesses the driver makes, the hardware behind the line-status *)
(* bits (transmit FIFO, transmit shift register, receive FIFO), and the    *)
(* driver's operations, one atomic step per register access.               *)
(***************************************************************************)
EXTENDS Integers, Sequences, FiniteSets, TLC

\* ------------------------------------------------------------------ bounds

\* Longest string handed to write_str, longest buffer handed to read, and the
\* number of words the serial line delivers to the receiver in one behaviour.
MaxLen == 2
\* Depth of the transmit and of the receive FIFO of the modelled hardware.
FifoDepth == 2
\* Number of public operations the firmware calls in one behaviour.
MaxCalls == 2
\* Lowest baud rate the divisor is computed for.
MinBaud == 300

\* Line status reads with the awaited bit clear that are counted per call.
MaxPolls == 2
\* Largest amount of symbols or cycles a wait is computed for.
MaxAmount == 64
\* Execution contexts that share one instance.
MaxContexts == 2
\* Instances (of the five) that are operated in one behaviour.
MaxActive == 2
\* Longest sleep asked of the timer, and the ticks of the counter in one
\* behaviour.
MaxDuration == 3
MaxTicks == 5
\* Characters the writer may draw with its cursor at or past the right edge.
MaxOverrun == 1

\* --------------------------------------------------------- bit operations

RECURSIVE BitAnd(_, _)
BitAnd(a, b) ==
    IF a = 0 \/ b = 0 THEN 0
    ELSE (a % 2) * (b % 2) + 2 * BitAnd(a \div 2, b \div 2)

RECURSIVE BitOr(_, _)
BitOr(a, b) ==
    IF a = 0 THEN b
    ELSE IF b = 0 THEN a
    ELSE (IF a % 2 = 1 \/ b % 2 = 1 THEN 1 ELSE 0) + 2 * BitOr(a \div 2, b \div 2)

\* Mutant: the mask is applied without the complement.
BitClear_uninverted(a, mask) == BitAnd(a, mask)

\* a & !mask
BitClear(a, mask) == a - BitAnd(a, mask)

\* ------------------------------------------------- 32-bit unsigned numbers
\* A u32 is kept as two 16-bit limbs <<high, low>> while it is computed with,
\* so that every operation wraps at 2^32 exactly as the machine does.

U32(x) == <<x \div 65536, x % 65536>>

U32Value(p) == p[1] * 65536 + p[2]

\* wrapping_add
U32Add(p, q) ==
    LET lo == p[2] + q[2]
        hi == p[1] + q[1] + lo \div 65536
    IN  <<hi % 65536, lo % 65536>>

\* wrapping_sub
U32Sub(p, q) ==
    U32Add(U32Add(p, <<65535 - q[1], 65535 - q[2]>>), <<0, 1>>)

\* wrapping_mul of a u32 by a factor k below 2^15
U32Mul(k, p) ==
    LET lo == k * p[2]
        hi == k * p[1] + lo \div 65536
    IN  <<hi % 65536, lo % 65536>>

U32Less(p, q) == p[1] < q[1] \/ (p[1] = q[1] /\ p[2] < q[2])

\* p / q, unsigned; q is not zero (a zero divisor panics in the source)
U32Div(p, q) ==
    IF U32Less(p, q) THEN 0
    ELSE IF q[1] >= 32768 THEN 1
    ELSE IF p[1] < 32768 THEN U32Value(p) \div U32Value(q)
    ELSE LET half == (p[1] \div 2) * 65536 + (p[1] % 2) * 32768 + p[2] \div 2
             c    == p[2] % 2
             d    == U32Value(q)
             t    == half \div d
             r    == half % d
         IN  2 * t + (IF r >= d - r - c THEN 1 ELSE 0)

\* ------------------------------------------------------ register bitflags

FCR_EN_FIFO == 1
RX_CLR == 2
TX_CLR == 4

IS_STA == 1
IS_PRI1 == 4
MODE_16550 == 64

WORD_LENGTH_8 == 3
STOP == 4
PAR == 8
EVEN == 16
SET_P == 32
SET_B == 64
DLAB == 128

RDR == 1
THRE == 32
TMTY == 64

UART_TX_IDLE == 1
UART_RX_IDLE == 2

\* Reference clock the divisor is derived from.
UART_CLOCK_HZ == 408000000

\* ------------------------------------------------------------ input sets

\* Baud rates handed to init when the whole driver runs: the two ends of the
\* supported range and the rate of the module's example.
BaudRates == {300, 115200, 12500000}

\* Highest baud rate of the hardware: 200 MHz / 16.
MaxBaud == 12500000

\* Baud rates the divisor is computed for on its own: every rate of the low
\* end, every multiple of 125 up to the maximum, and the standard rates.
ArithBauds ==
    (MinBaud..20000)
        \cup {k * 125 : k \in 160..(MaxBaud \div 125)}
        \cup {57600, 115200, 230400, 460800, 921600}

\* Baud rates the waits are compared at: the ends of the range, the standard
\* rates and neighbours of rates at which a duration changes.
MonoBauds ==
    {MinBaud, MinBaud + 1, 599, 600, 601, 1200, 2400, 4800, 9600, 19200,
     38400, 57600, 115200, 230400, 460800, 921600, 999999, 1000000, 1000001,
     2000000, 3000000, 4000000, 6250000, MaxBaud - 1, MaxBaud}

\* Baud rates a single wait is computed for: every rate of the low end, every
\* multiple of 1000 up to the maximum, and the rates above.
WaitBauds ==
    (MinBaud..20000) \cup {k * 1000 : k \in 20..(MaxBaud \div 1000)} \cup MonoBauds

\* Arguments <<baud, amount>> of the waits: the amounts init uses (3 symbols,
\* 3 cycles, 32 cycles) at every rate of WaitBauds, and every amount up to
\* MaxAmount at the rates of MonoBauds.
WaitArguments ==
    (WaitBauds \X {3, 32}) \cup (MonoBauds \X (0..MaxAmount))

\* Bytes handed to write_byte and write_str.
TxBytes == {65, 66}

\* The i-th word the line delivers, as the receive-holding register presents
\* it: the received byte ("A", "B", "C", ...) in the low 8 bits; the register
\* is 32 bits wide and every second word carries a set upper bit.
RxWord(i) == 64 + i + 256 * ((i + 1) % 2)

\* Strings of at most MaxLen bytes.
Strings == UNION {[1..n -> TxBytes] : n \in 0..MaxLen}

\* Register contents init may find: the reset state, and two states left by an
\* earlier boot stage (one of them with the divisor latch still open).
InitRegisters ==
    { [lcr |-> 0, ier |-> 0, mcr |-> 0],
      [lcr |-> 27, ier |-> 5, mcr |-> 2],
      [lcr |-> 128 + 27, ier |-> 5, mcr |-> 2] }

\* Values a read of the shared IIR/FCR address returns: the interrupt
\* identification register, with or without a pending interrupt.
IirValues == {IS_STA, IS_STA + MODE_16550, IS_PRI1 + MODE_16550}

\* ------------------------------------------------------------------ state

VARIABLES
    \* hardware: registers of the block
    lcr,        \* line control register
    ier,        \* interrupt enable register (second register, latch closed)
    mcr,        \* modem control register
    fcr,        \* last value written to the FIFO control register
    dll,        \* divisor latch, low byte  (first register, latch open)
    dlm,        \* divisor latch, high byte (second register, latch open)
    \* hardware: data path
    txFifo,     \* bytes queued for transmission, oldest first
    txShift,    \* the byte in the transmit shift register (<<>> when empty)
    rxFifo,     \* words received and not yet read, oldest first
    rxSent,     \* words the line has delivered so far
    clockOn,    \* the instance's clock gate
    \* driver: control
    pc,         \* the statement the driver executes next ("idle": no call)
    stack,      \* return labels of the calls in progress
    op,         \* the public operation called last
    ready,      \* an init call has returned
    calls,      \* public operations called so far
    \* driver: arguments and locals
    baud, baud_rate, tmp, status, byte, str, idx, buffer, retval, amount,
    \* history of the current call
    log,        \* register accesses, clock enables and sleeps, in order
    rxTaken,    \* words the hardware handed out of the receive FIFO
    polls,      \* line status reads that showed the awaited bit clear
    latched,    \* per returned init: its baud rate and the latches it left
    \* further execution contexts sharing the instance
    ctx,        \* context -> the statement it executes next and its argument
    \* parts of the system that are modelled on their own
    bus,        \* the register blocks of the five instances in one address space
    timer,      \* the microsecond counter and a usleep call in progress
    writer,     \* the framebuffer writer: its cursor and what it has drawn
    fuse,       \* the fuse controller and a fuse command in progress
    pinmux      \* the pin registers

hw == <<lcr, ier, mcr, fcr, dll, dlm, txFifo, txShift, rxFifo, rxSent, clockOn>>
apart == <<bus, timer, writer, fuse, pinmux>>
ctl == <<pc, stack, op, ready, calls, ctx, apart>>
locals == <<baud, baud_rate, tmp, status, byte, str, idx, buffer, retval, amount>>
hist == <<log, rxTaken, polls, latched>>
vars == <<hw, ctl, locals, hist>>

\* No further execution context: the instance is used by one context only.
NoContexts == <<>>

\* The other instances and the timer are left out.
NoBus == <<>>
NoTimer == <<>>
NoWriter == <<>>
NoFuse == <<>>
NoPinmux == <<>>

\* ---------------------------------------------------------------- hardware

DlabSet == BitAnd(lcr, DLAB) # 0

FifoEnabled == BitAnd(fcr, FCR_EN_FIFO) # 0

\* Room of the transmit path: the FIFO, or the single holding register of the
\* 16450 mode the block is in while the FIFO is not enabled.
TxCapacity == IF FifoEnabled THEN FifoDepth ELSE 1

RxCapacity == IF FifoEnabled THEN FifoDepth ELSE 1

\* The line status register as the hardware presents it.
LSR ==
      (IF rxFifo # <<>> THEN RDR ELSE 0)
    + (IF txFifo = <<>> THEN THRE ELSE 0)
    + (IF txFifo = <<>> /\ txShift = <<>> THEN TMTY ELSE 0)

\* The value a read of register reg returns (IIR_FCR: see IirValues).
RegValue(reg) ==
    CASE reg = "LSR" -> LSR
      [] reg = "LCR" -> lcr
      [] reg = "MCR" -> mcr
      [] reg = "SPR" -> 0
      [] reg = "IER_DLAB" -> IF DlabSet THEN dlm ELSE ier
      [] reg = "THR_DLAB" ->
            IF DlabSet THEN dll
            ELSE IF rxFifo # <<>> THEN Head(rxFifo) ELSE 0

\* Mmio::read: the hardware's side of a register read. Reading the receive
\* holding register takes the oldest word out of the receive FIFO.
MmioRead(reg) ==
    LET pop == reg = "THR_DLAB" /\ ~DlabSet /\ rxFifo # <<>>
    IN  /\ rxFifo' = IF pop THEN Tail(rxFifo) ELSE rxFifo
        /\ rxTaken' = IF pop THEN Append(rxTaken, Head(rxFifo)) ELSE rxTaken
        /\ UNCHANGED <<lcr, ier, mcr, fcr, dll, dlm, txFifo, txShift, rxSent, clockOn>>

\* Mmio::write: the hardware's side of a register write.
MmioWrite(reg, v) ==
    /\ lcr' = IF reg = "LCR" THEN v % 256 ELSE lcr
    /\ mcr' = IF reg = "MCR" THEN v ELSE mcr
    /\ ier' = IF reg = "IER_DLAB" /\ ~DlabSet THEN v ELSE ier
    /\ dlm' = IF reg = "IER_DLAB" /\ DlabSet THEN v % 256 ELSE dlm
    /\ dll' = IF reg = "THR_DLAB" /\ DlabSet THEN v % 256 ELSE dll
    /\ fcr' = IF reg = "IIR_FCR" THEN v ELSE fcr
    /\ txFifo' =
          IF reg = "THR_DLAB" /\ ~DlabSet
          THEN IF Len(txFifo) < TxCapacity THEN Append(txFifo, v % 256) ELSE txFifo
          ELSE IF reg = "IIR_FCR" /\ BitAnd(v, TX_CLR) # 0 THEN <<>>
          ELSE txFifo
    /\ rxFifo' = IF reg = "IIR_FCR" /\ BitAnd(v, RX_CLR) # 0 THEN <<>> ELSE rxFifo
    /\ UNCHANGED <<txShift, rxSent, clockOn, rxTaken>>

\* The transmitter takes the oldest queued byte into its shift register.
hw_tx_load ==
    /\ txShift = <<>>
    /\ txFifo # <<>>
    /\ txShift' = <<Head(txFifo)>>
    /\ txFifo' = Tail(txFifo)
    /\ UNCHANGED <<lcr, ier, mcr, fcr, dll, dlm, rxFifo, rxSent, clockOn>>
    /\ UNCHANGED <<ctl, locals, hist>>

\* The byte in the shift register has been clocked out on the line.
hw_tx_done ==
    /\ txShift # <<>>
    /\ txShift' = <<>>
    /\ UNCHANGED <<lcr, ier, mcr, fcr, dll, dlm, txFifo, rxFifo, rxSent, clockOn>>
    /\ UNCHANGED <<ctl, locals, hist>>

\* A word arrives from the line; it is lost when the receive FIFO is full.
hw_rx ==
    /\ rxSent < MaxLen
    /\ rxFifo' = IF Len(rxFifo) < RxCapacity
                 THEN Append(rxFifo, RxWord(rxSent + 1))
                 ELSE rxFifo
    /\ rxSent' = rxSent + 1
    /\ UNCHANGED <<lcr, ier, mcr, fcr, dll, dlm, txFifo, txShift, clockOn>>
    /\ UNCHANGED <<ctl, locals, hist>>

\* ------------------------------------------------------------------ driver

Logged(k, reg, v) ==
    /\ log' = Append(log, [k |-> k, reg |-> reg, v |-> v])
    /\ UNCHANGED <<polls, latched>>

\* A line status read that showed the awaited bit clear: the loop polls again.
\* The reads are counted up to MaxPolls.
PollAgain ==
    /\ polls' = IF polls < MaxPolls THEN polls + 1 ELSE polls
    /\ UNCHANGED <<hw, ctl, locals, log, rxTaken, latched>>

\* A register read that returned v, and a register write of v.
RegRead(reg, v) == MmioRead(reg) /\ Logged("r", reg, v)

RegWrite(reg, v) == MmioWrite(reg, v) /\ Logged("w", reg, v)

Goto(label) == pc' = label /\ UNCHANGED <<stack, op, ready, calls, ctx, apart>>

Call(callee, back) ==
    /\ pc' = callee
    /\ stack' = <<back>> \o stack
    /\ UNCHANGED <<op, ready, calls, ctx, apart>>

Return ==
    /\ pc' = Head(stack)
    /\ stack' = Tail(stack)
    /\ UNCHANGED <<op, ready, calls, ctx, apart>>

\* timer::usleep as the driver sees it: the call returns after the duration.
\* Mutant: the sleep returns at once.
usleep_returning_at_once(duration) ==
    /\ UNCHANGED <<hw, log, rxTaken, polls, latched>>

usleep(duration) ==
    /\ Logged("sleep", "usleep", duration)
    /\ UNCHANGED <<hw, rxTaken>>

\* Mutant: the division truncates (the bias 16 * baud - 1 is left out).
wait_cycles_truncating(b, n) ==
    U32Div(U32Mul(n, U32(1000000)), U32Mul(16, U32(b)))

\* Mutant: the duration of as many symbols (the factor 16 is left out).
wait_cycles_per_symbol(b, n) ==
    U32Div(U32Sub(U32Add(U32Mul(n, U32(1000000)), U32(b)), U32(1)), U32(b))

\* Mutant: the division truncates (the bias baud - 1 is left out).
wait_symbols_truncating(b, n) == U32Div(U32Mul(n, U32(1000000)), U32(b))

\* Mutant: the parentheses around the numerator are missing, so that only
\* the 1 is divided: amount * 1_000_000 + baud - 1 / baud.
wait_symbols_unparenthesised(b, n) ==
    U32Value(U32Sub(U32Add(U32Mul(n, U32(1000000)), U32(b)), U32(1 \div b)))

\* Duration wait_cycles hands to usleep:
\* (amount * 1_000_000 + 16 * baud - 1) / (16 * baud)
wait_cycles(b, n) ==
    U32Div(U32Sub(U32Add(U32Mul(n, U32(1000000)), U32Mul(16, U32(b))), U32(1)),
           U32Mul(16, U32(b)))

\* Duration wait_symbols hands to usleep: (amount * 1_000_000 + baud - 1) / baud
wait_symbols(b, n) ==
    U32Div(U32Sub(U32Add(U32Mul(n, U32(1000000)), U32(b)), U32(1)), U32(b))

\* Mutant: the rounding bias 8 * baud is left out.
divisor_truncating(b) == U32Div(U32(UART_CLOCK_HZ), U32Mul(16, U32(b)))

\* Mutant: the bias is a whole divisor step, which rounds up.
divisor_rounding_up(b) ==
    U32Div(U32Add(U32Sub(U32Mul(16, U32(b)), U32(1)), U32(UART_CLOCK_HZ)),
           U32Mul(16, U32(b)))

\* let baud_rate = (8 * baud + 408_000_000) / (16 * baud);
divisor(b) ==
    U32Div(U32Add(U32Mul(8, U32(b)), U32(UART_CLOCK_HZ)), U32Mul(16, U32(b)))

\* The bit wait_idle polls while waiting for the receiver: it loops while the
\* bit reads as zero.
wait_idle_rx_bit == RDR

\* Mutant: the transmit wait ends when the holding register is empty.
wait_idle_tx_bit_holding == THRE

\* The bit wait_idle polls for UART_TX_IDLE.
wait_idle_tx_bit == TMTY

wait_idle ==
    \/ /\ pc = "wait_idle"
       /\ IF BitAnd(status, UART_TX_IDLE) # 0
          THEN IF BitAnd(LSR, wait_idle_tx_bit) = 0
               THEN PollAgain
               ELSE /\ RegRead("LSR", LSR)
                    /\ Goto("wait_idle_rx")
                    /\ UNCHANGED locals
          ELSE /\ Goto("wait_idle_rx")
               /\ UNCHANGED <<hw, locals, hist>>
    \/ /\ pc = "wait_idle_rx"
       /\ IF BitAnd(status, UART_RX_IDLE) # 0
          THEN IF BitAnd(LSR, wait_idle_rx_bit) = 0
               THEN PollAgain
               ELSE /\ RegRead("LSR", LSR)
                    /\ Return
                    /\ UNCHANGED locals
          ELSE /\ Return
               /\ UNCHANGED <<hw, locals, hist>>

\* The bit wait_transmit polls: it loops while the bit reads as zero.
wait_transmit_bit == THRE

\* Mutant: one line status read, and the wait ends whatever it showed.
wait_transmit_single_poll ==
    /\ pc = "wait_transmit"
    /\ IF BitAnd(LSR, wait_transmit_bit) = 0
       THEN /\ polls' = IF polls < MaxPolls THEN polls + 1 ELSE polls
            /\ Return
            /\ UNCHANGED <<hw, locals, log, rxTaken, latched>>
       ELSE /\ RegRead("LSR", LSR)
            /\ Return
            /\ UNCHANGED locals

wait_transmit ==
    /\ pc = "wait_transmit"
    /\ IF BitAnd(LSR, wait_transmit_bit) = 0
       THEN PollAgain
       ELSE /\ RegRead("LSR", LSR)
            /\ Return
            /\ UNCHANGED locals

wait_receive ==
    /\ pc = "wait_receive"
    /\ IF BitAnd(LSR, RDR) = 0
       THEN PollAgain
       ELSE /\ RegRead("LSR", LSR)
            /\ Return
            /\ UNCHANGED locals

\* Mutant: the line control bits are added to what the register holds.
line_control_added == BitOr(lcr, BitOr(DLAB, WORD_LENGTH_8))

\* (LineControl::DLAB | LineControl::WORD_LENGTH_8).bits()
line_control == BitOr(DLAB, WORD_LENGTH_8)

init ==
    \/ /\ pc = "init"                       \* self.clock.enable();
       /\ clockOn' = TRUE
       /\ Logged("clk", "UART", 1)
       /\ UNCHANGED <<lcr, ier, mcr, fcr, dll, dlm, txFifo, txShift, rxFifo, rxSent>>
       /\ rxTaken' = rxTaken
       /\ status' = UART_TX_IDLE            \* self.wait_idle(UART_TX_IDLE);
       /\ Call("wait_idle", "init_ier")
       /\ UNCHANGED <<baud, baud_rate, tmp, byte, str, idx, buffer, retval, amount>>
    \/ /\ pc = "init_ier"
       /\ baud_rate' = divisor(baud)
       /\ RegWrite("IER_DLAB", 0)
       /\ Goto("init_mcr")
       /\ UNCHANGED <<baud, tmp, status, byte, str, idx, buffer, retval, amount>>
    \/ /\ pc = "init_mcr"
       /\ RegWrite("MCR", 0)
       /\ Goto("init_lcr")
       /\ UNCHANGED locals
    \/ /\ pc = "init_lcr"
       /\ RegWrite("LCR", line_control)
       /\ Goto("init_dll")
       /\ UNCHANGED locals
    \/ /\ pc = "init_dll"
       /\ RegWrite("THR_DLAB", baud_rate)
       /\ Goto("init_dlm")
       /\ UNCHANGED locals
    \/ /\ pc = "init_dlm"
       /\ RegWrite("IER_DLAB", baud_rate \div 256)
       /\ Goto("init_lcr_read")
       /\ UNCHANGED locals
    \/ /\ pc = "init_lcr_read"
       /\ RegRead("LCR", RegValue("LCR"))
       /\ tmp' = RegValue("LCR")
       /\ Goto("init_lcr_write")
       /\ UNCHANGED <<baud, baud_rate, status, byte, str, idx, buffer, retval, amount>>
    \/ /\ pc = "init_lcr_write"
       /\ RegWrite("LCR", BitClear(tmp, DLAB))
       /\ Goto("init_spr")
       /\ UNCHANGED locals
    \/ /\ pc = "init_spr"
       /\ RegRead("SPR", RegValue("SPR"))
       /\ Goto("init_symbols")
       /\ UNCHANGED locals
    \/ /\ pc = "init_symbols"
       /\ usleep(wait_symbols(baud, 3))
       /\ Goto("init_fcr")
       /\ UNCHANGED locals
    \/ /\ pc = "init_fcr"
       /\ RegWrite("IIR_FCR", FCR_EN_FIFO)
       /\ Goto("init_spr2")
       /\ UNCHANGED locals
    \/ /\ pc = "init_spr2"
       /\ RegRead("SPR", RegValue("SPR"))
       /\ Goto("init_cycles")
       /\ UNCHANGED locals
    \/ /\ pc = "init_cycles"
       /\ usleep(wait_cycles(baud, 3))
       /\ status' = UART_TX_IDLE
       /\ Call("wait_idle", "init_iir_read")
       /\ UNCHANGED <<baud, baud_rate, tmp, byte, str, idx, buffer, retval, amount>>
    \/ /\ pc = "init_iir_read"
       /\ \E v \in IirValues :
            /\ RegRead("IIR_FCR", v)
            /\ tmp' = v
       /\ Goto("init_fcr_clear")
       /\ UNCHANGED <<baud, baud_rate, status, byte, str, idx, buffer, retval, amount>>
    \/ /\ pc = "init_fcr_clear"
       /\ RegWrite("IIR_FCR", BitOr(tmp, BitOr(RX_CLR, TX_CLR)))
       /\ Goto("init_soak")
       /\ UNCHANGED locals
    \/ /\ pc = "init_soak"
       /\ usleep(wait_cycles(baud, 32))
       /\ status' = BitOr(UART_TX_IDLE, UART_RX_IDLE)
       /\ Call("wait_idle", "init_return")
       /\ UNCHANGED <<baud, baud_rate, tmp, byte, str, idx, buffer, retval, amount>>
    \/ /\ pc = "init_return"
       /\ pc' = Head(stack)
       /\ stack' = Tail(stack)
       /\ ready' = TRUE
       /\ latched' = Append(latched, [baud |-> baud, dll |-> dll, dlm |-> dlm])
       /\ UNCHANGED <<op, calls, ctx, apart, hw, locals, log, rxTaken, polls>>

\* Mutant: the byte is written without waiting for the holding register.
write_byte_no_wait ==
    /\ pc = "write_byte"
    /\ RegWrite("THR_DLAB", byte)
    /\ Return
    /\ UNCHANGED locals

write_byte ==
    \/ /\ pc = "write_byte"
       /\ Call("wait_transmit", "write_byte_thr")
       /\ UNCHANGED <<hw, locals, hist>>
    \/ /\ pc = "write_byte_thr"
       /\ RegWrite("THR_DLAB", byte)
       /\ Return
       /\ UNCHANGED locals

\* Mutant: the value read is returned without the cut to u8.
read_byte_untruncated ==
    \/ /\ pc = "read_byte"
       /\ Call("wait_receive", "read_byte_rbr")
       /\ UNCHANGED <<hw, locals, hist>>
    \/ /\ pc = "read_byte_rbr"
       /\ RegRead("THR_DLAB", RegValue("THR_DLAB"))
       /\ retval' = RegValue("THR_DLAB")
       /\ Return
       /\ UNCHANGED <<baud, baud_rate, tmp, status, byte, str, idx, buffer, amount>>

read_byte ==
    \/ /\ pc = "read_byte"
       /\ Call("wait_receive", "read_byte_rbr")
       /\ UNCHANGED <<hw, locals, hist>>
    \/ /\ pc = "read_byte_rbr"
       /\ RegRead("THR_DLAB", RegValue("THR_DLAB"))
       /\ retval' = RegValue("THR_DLAB") % 256
       /\ Return
       /\ UNCHANGED <<baud, baud_rate, tmp, status, byte, str, idx, buffer, amount>>

\* Mutant: the loop stops one element early.
read_stops_early ==
    \/ /\ pc = "read"
       /\ IF idx + 1 < Len(buffer)
          THEN Call("read_byte", "read_store")
          ELSE Return
       /\ UNCHANGED <<hw, locals, hist>>
    \/ /\ pc = "read_store"
       /\ buffer' = [buffer EXCEPT ![idx + 1] = retval]
       /\ idx' = idx + 1
       /\ Goto("read")
       /\ UNCHANGED <<hw, hist>>
       /\ UNCHANGED <<baud, baud_rate, tmp, status, byte, str, retval, amount>>

read ==
    \/ /\ pc = "read"
       /\ IF idx < Len(buffer)
          THEN Call("read_byte", "read_store")
          ELSE Return
       /\ UNCHANGED <<hw, locals, hist>>
    \/ /\ pc = "read_store"
       /\ buffer' = [buffer EXCEPT ![idx + 1] = retval]
       /\ idx' = idx + 1
       /\ Goto("read")
       /\ UNCHANGED <<hw, hist>>
       /\ UNCHANGED <<baud, baud_rate, tmp, status, byte, str, retval, amount>>

\* Mutant: the loop stops before the last byte of the string.
write_str_drops_last ==
    \/ /\ pc = "write_str"
       /\ IF idx + 1 < Len(str)
          THEN /\ byte' = str[idx + 1]
               /\ idx' = idx + 1
               /\ Call("write_byte", "write_str")
          ELSE /\ Call("wait_transmit", "write_str_ok")
               /\ UNCHANGED <<byte, idx>>
       /\ UNCHANGED <<hw, hist>>
       /\ UNCHANGED <<baud, baud_rate, tmp, status, str, buffer, retval, amount>>
    \/ /\ pc = "write_str_ok"
       /\ Return
       /\ UNCHANGED <<hw, locals, hist>>

write_str ==
    \/ /\ pc = "write_str"
       /\ IF idx < Len(str)
          THEN /\ byte' = str[idx + 1]
               /\ idx' = idx + 1
               /\ Call("write_byte", "write_str")
          ELSE /\ Call("wait_transmit", "write_str_ok")
               /\ UNCHANGED <<byte, idx>>
       /\ UNCHANGED <<hw, hist>>
       /\ UNCHANGED <<baud, baud_rate, tmp, status, str, buffer, retval, amount>>
    \/ /\ pc = "write_str_ok"
       /\ Return
       /\ UNCHANGED <<hw, locals, hist>>

\* ------------------------------------------------------------------ caller
\* The firmware using the driver: one call at a time, init before any transfer.

Enter(name) ==
    /\ pc = "idle"
    /\ calls < MaxCalls
    /\ calls' = calls + 1
    /\ pc' = name
    /\ op' = name
    /\ stack' = <<"idle">>
    /\ ready' = ready
    /\ log' = <<>>
    /\ rxTaken' = <<>>
    /\ polls' = 0
    /\ UNCHANGED <<latched, ctx, apart>>
    /\ UNCHANGED hw

call_init ==
    /\ Enter("init")
    /\ \E b \in BaudRates : baud' = b
    /\ baud_rate' = 0 /\ tmp' = 0 /\ status' = 0 /\ byte' = 0
    /\ str' = <<>> /\ idx' = 0 /\ buffer' = <<>> /\ retval' = 0 /\ amount' = 0

call_write_byte ==
    /\ ready
    /\ Enter("write_byte")
    /\ \E v \in TxBytes : byte' = v
    /\ baud' = 0 /\ baud_rate' = 0 /\ tmp' = 0 /\ status' = 0
    /\ str' = <<>> /\ idx' = 0 /\ buffer' = <<>> /\ retval' = 0 /\ amount' = 0

call_read_byte ==
    /\ ready
    /\ Enter("read_byte")
    /\ baud' = 0 /\ baud_rate' = 0 /\ tmp' = 0 /\ status' = 0 /\ byte' = 0
    /\ str' = <<>> /\ idx' = 0 /\ buffer' = <<>> /\ retval' = 0 /\ amount' = 0

call_read ==
    /\ ready
    /\ Enter("read")
    /\ \E n \in 0..MaxLen : buffer' = [i \in 1..n |-> 0]
    /\ baud' = 0 /\ baud_rate' = 0 /\ tmp' = 0 /\ status' = 0 /\ byte' = 0
    /\ str' = <<>> /\ idx' = 0 /\ retval' = 0 /\ amount' = 0

call_write_str ==
    /\ ready
    /\ Enter("write_str")
    /\ \E s \in Strings : str' = s
    /\ baud' = 0 /\ baud_rate' = 0 /\ tmp' = 0 /\ status' = 0 /\ byte' = 0
    /\ idx' = 0 /\ buffer' = <<>> /\ retval' = 0 /\ amount' = 0

call_wait_idle ==
    /\ ready
    /\ Enter("wait_idle")
    /\ \E flags \in {0, UART_TX_IDLE, UART_RX_IDLE, UART_TX_IDLE + UART_RX_IDLE} :
          status' = flags
    /\ baud' = 0 /\ baud_rate' = 0 /\ tmp' = 0 /\ byte' = 0
    /\ str' = <<>> /\ idx' = 0 /\ buffer' = <<>> /\ retval' = 0 /\ amount' = 0

\* ----------------------------------------------------------- specification

Init ==
    /\ \E r \in InitRegisters : lcr = r.lcr /\ ier = r.ier /\ mcr = r.mcr
    /\ fcr = 0 /\ dll = 0 /\ dlm = 0
    /\ txFifo = <<>>
    /\ txShift \in {<<>>, <<85>>}
    /\ rxFifo \in {<<>>, <<90>>}
    /\ rxSent = 0
    /\ clockOn = FALSE
    /\ pc = "idle" /\ stack = <<>> /\ op = "none" /\ ready = FALSE /\ calls = 0
    /\ baud = 0 /\ baud_rate = 0 /\ tmp = 0 /\ status = 0 /\ byte = 0
    /\ str = <<>> /\ idx = 0 /\ buffer = <<>> /\ retval = 0 /\ amount = 0
    /\ log = <<>> /\ rxTaken = <<>> /\ polls = 0 /\ latched = <<>>
    /\ ctx = NoContexts
    /\ bus = NoBus /\ timer = NoTimer
    /\ writer = NoWriter /\ fuse = NoFuse /\ pinmux = NoPinmux

Next ==
    \/ call_init \/ call_write_byte \/ call_read_byte \/ call_read \/ call_write_str
    \/ call_wait_idle
    \/ init \/ wait_idle \/ wait_transmit \/ wait_receive
    \/ write_byte \/ read_byte \/ read \/ write_str
    \/ hw_tx_load \/ hw_tx_done \/ hw_rx

Spec == Init /\ [][Next]_vars

\* ------------------------------------------------ the divisor on its own
\* The statement of init that computes the divisor, applied to every baud rate
\* of ArithBauds.

init_divisor ==
    /\ pc = "init_divisor"
    /\ baud_rate' = divisor(baud)
    /\ pc' = "init_divisor_done"
    /\ UNCHANGED <<hw, hist, stack, op, ready, calls, ctx, apart>>
    /\ UNCHANGED <<baud, tmp, status, byte, str, idx, buffer, retval, amount>>

ArithInit ==
    /\ baud \in ArithBauds
    /\ pc = "init_divisor"
    /\ lcr = 0 /\ ier = 0 /\ mcr = 0 /\ fcr = 0 /\ dll = 0 /\ dlm = 0
    /\ txFifo = <<>> /\ txShift = <<>> /\ rxFifo = <<>> /\ rxSent = 0
    /\ clockOn = FALSE
    /\ stack = <<>> /\ op = "init" /\ ready = FALSE /\ calls = 1
    /\ baud_rate = 0 /\ tmp = 0 /\ status = 0 /\ byte = 0
    /\ str = <<>> /\ idx = 0 /\ buffer = <<>> /\ retval = 0 /\ amount = 0
    /\ log = <<>> /\ rxTaken = <<>> /\ polls = 0 /\ latched = <<>>
    /\ ctx = NoContexts
    /\ bus = NoBus /\ timer = NoTimer
    /\ writer = NoWriter /\ fuse = NoFuse /\ pinmux = NoPinmux

ArithNext == init_divisor

ArithSpec == ArithInit /\ [][ArithNext]_vars

\* ------------------------------------------------- the waits on their own
\* wait_symbols and wait_cycles applied to the arguments of WaitArguments, and
\* then once more with one of the two arguments raised. The log holds, for
\* each application, the arguments and the duration handed to usleep.

run_wait_symbols ==
    /\ pc = "wait_symbols"
    /\ usleep(wait_symbols(baud, amount))
    /\ Return
    /\ UNCHANGED locals

run_wait_cycles ==
    /\ pc = "wait_cycles"
    /\ usleep(wait_cycles(baud, amount))
    /\ Return
    /\ UNCHANGED locals

wait_again ==
    /\ pc = "idle"
    /\ Len(log) = 2
    /\ baud \in MonoBauds
    /\ \/ /\ amount < MaxAmount
          /\ amount' = amount + 1
          /\ baud' = baud
       \/ /\ \E b \in MonoBauds : b > baud /\ baud' = b
          /\ amount' = amount
    /\ Logged("call", op, <<baud', amount'>>)
    /\ pc' = op
    /\ stack' = <<"idle">>
    /\ UNCHANGED <<hw, rxTaken, op, ready, calls, ctx, apart>>
    /\ UNCHANGED <<baud_rate, tmp, status, byte, str, idx, buffer, retval>>

WaitInit ==
    /\ \E a \in WaitArguments : baud = a[1] /\ amount = a[2]
    /\ op \in {"wait_symbols", "wait_cycles"}
    /\ pc = op
    /\ log = <<[k |-> "call", reg |-> op, v |-> <<baud, amount>>]>>
    /\ lcr = 0 /\ ier = 0 /\ mcr = 0 /\ fcr = 0 /\ dll = 0 /\ dlm = 0
    /\ txFifo = <<>> /\ txShift = <<>> /\ rxFifo = <<>> /\ rxSent = 0
    /\ clockOn = FALSE
    /\ stack = <<"idle">> /\ ready = FALSE /\ calls = 1
    /\ baud_rate = 0 /\ tmp = 0 /\ status = 0 /\ byte = 0
    /\ str = <<>> /\ idx = 0 /\ buffer = <<>> /\ retval = 0
    /\ rxTaken = <<>> /\ polls = 0 /\ latched = <<>>
    /\ ctx = NoContexts
    /\ bus = NoBus /\ timer = NoTimer
    /\ writer = NoWriter /\ fuse = NoFuse /\ pinmux = NoPinmux

WaitNext == run_wait_symbols \/ run_wait_cycles \/ wait_again

WaitSpec == WaitInit /\ [][WaitNext]_vars

\* ------------------------------------------------------------- loopback
\* The instance after init, on a full-duplex loopback backend: every byte the
\* transmitter shifts out is delivered to the receiver, in order, and the
\* backend keeps it until the driver reads it.

\* Strings of up to one byte more than the transmit FIFO holds.
LoopStrings == UNION {[1..n -> TxBytes] : n \in 0..(FifoDepth + 1)}

\* The byte in the shift register has been clocked out and is delivered to
\* the receiver.
hw_loopback ==
    /\ txShift # <<>>
    /\ txShift' = <<>>
    /\ rxFifo' = Append(rxFifo, Head(txShift))
    /\ UNCHANGED <<lcr, ier, mcr, fcr, dll, dlm, txFifo, rxSent, clockOn>>
    /\ UNCHANGED <<ctl, locals, hist>>

\* The firmware writes a string while the line is quiet ...
round_trip_write ==
    /\ ready
    /\ txFifo = <<>> /\ txShift = <<>> /\ rxFifo = <<>>
    /\ Enter("write_str")
    /\ \E s \in LoopStrings : str' = s
    /\ baud' = 0 /\ baud_rate' = 0 /\ tmp' = 0 /\ status' = 0 /\ byte' = 0
    /\ idx' = 0 /\ buffer' = <<>> /\ retval' = 0 /\ amount' = 0

\* ... and, once write_str has returned, reads as many bytes back.
round_trip_read ==
    /\ pc = "idle" /\ op = "write_str"
    /\ Enter("read")
    /\ buffer' = [i \in 1..Len(str) |-> 0]
    /\ str' = str
    /\ baud' = 0 /\ baud_rate' = 0 /\ tmp' = 0 /\ status' = 0 /\ byte' = 0
    /\ idx' = 0 /\ retval' = 0 /\ amount' = 0

\* The state init leaves behind at 115200 baud, whatever the shared IIR/FCR
\* address returned, once the word that ended init has been read.
LoopInit ==
    /\ lcr = WORD_LENGTH_8 /\ ier = 0 /\ mcr = 0
    /\ fcr \in {BitOr(v, BitOr(RX_CLR, TX_CLR)) : v \in IirValues}
    /\ dll = divisor(115200) % 256
    /\ dlm = (divisor(115200) \div 256) % 256
    /\ txFifo = <<>> /\ txShift = <<>> /\ rxFifo = <<>> /\ rxSent = 0
    /\ clockOn = TRUE
    /\ pc = "idle" /\ stack = <<>> /\ op = "init" /\ ready = TRUE /\ calls = 0
    /\ baud = 0 /\ baud_rate = 0 /\ tmp = 0 /\ status = 0 /\ byte = 0
    /\ str = <<>> /\ idx = 0 /\ buffer = <<>> /\ retval = 0 /\ amount = 0
    /\ log = <<>> /\ rxTaken = <<>> /\ polls = 0 /\ latched = <<>>
    /\ ctx = NoContexts
    /\ bus = NoBus /\ timer = NoTimer
    /\ writer = NoWriter /\ fuse = NoFuse /\ pinmux = NoPinmux

LoopNext ==
    \/ round_trip_write \/ round_trip_read \/ call_write_byte
    \/ wait_transmit \/ wait_receive
    \/ write_byte \/ read_byte \/ read \/ write_str
    \/ hw_tx_load \/ hw_loopback

LoopSpec == LoopInit /\ [][LoopNext]_vars

\* ------------------------------------------------------- shared instance
\* Uart is Send and Sync and its methods take &self: several execution
\* contexts may hold a reference to the same instance and call write_byte on
\* it. Each context runs the statements of write_byte on its own; the
\* register block and the hardware behind it are shared.

Contexts == 1..MaxContexts

\* Context c calls write_byte(v): nothing in the call depends on what the
\* other contexts are doing.
ctx_call_write_byte(c) ==
    /\ ctx[c].pc = "idle"
    /\ calls < MaxCalls
    /\ calls' = calls + 1
    /\ \E v \in TxBytes :
          ctx' = [ctx EXCEPT ![c] = [pc |-> "wait_transmit", byte |-> v]]
    /\ UNCHANGED <<hw, pc, stack, op, ready, locals, hist, apart>>

\* wait_transmit in context c.
ctx_wait_transmit(c) ==
    /\ ctx[c].pc = "wait_transmit"
    /\ IF BitAnd(LSR, wait_transmit_bit) = 0
       THEN PollAgain
       ELSE /\ RegRead("LSR", LSR)
            /\ ctx' = [ctx EXCEPT ![c].pc = "write_byte_thr"]
            /\ UNCHANGED <<pc, stack, op, ready, calls, locals, apart>>

\* The write of the byte to the transmit holding register in context c.
ctx_write_byte(c) ==
    /\ ctx[c].pc = "write_byte_thr"
    /\ RegWrite("THR_DLAB", ctx[c].byte)
    /\ ctx' = [ctx EXCEPT ![c].pc = "idle"]
    /\ UNCHANGED <<pc, stack, op, ready, calls, locals, apart>>

\* The state init leaves behind (see LoopInit), every context outside of any
\* operation.
SharedInit ==
    /\ lcr = WORD_LENGTH_8 /\ ier = 0 /\ mcr = 0
    /\ fcr \in {BitOr(v, BitOr(RX_CLR, TX_CLR)) : v \in IirValues}
    /\ dll = divisor(115200) % 256
    /\ dlm = (divisor(115200) \div 256) % 256
    /\ txFifo = <<>> /\ txShift = <<>> /\ rxFifo = <<>> /\ rxSent = 0
    /\ clockOn = TRUE
    /\ pc = "idle" /\ stack = <<>> /\ op = "init" /\ ready = TRUE /\ calls = 0
    /\ baud = 0 /\ baud_rate = 0 /\ tmp = 0 /\ status = 0 /\ byte = 0
    /\ str = <<>> /\ idx = 0 /\ buffer = <<>> /\ retval = 0 /\ amount = 0
    /\ log = <<>> /\ rxTaken = <<>> /\ polls = 0 /\ latched = <<>>
    /\ ctx = [c \in Contexts |-> [pc |-> "idle", byte |-> 0]]
    /\ bus = NoBus /\ timer = NoTimer
    /\ writer = NoWriter /\ fuse = NoFuse /\ pinmux = NoPinmux

SharedNext ==
    \/ \E c \in Contexts : ctx_call_write_byte(c)
    \/ \E c \in Contexts : ctx_wait_transmit(c)
    \/ \E c \in Contexts : ctx_write_byte(c)
    \/ hw_tx_load
    \/ hw_tx_done

SharedSpec == SharedInit /\ [][SharedNext]_vars

\* -------------------------------------------------------- five instances
\* The register blocks of UART A to E in one address space. A register is a
\* 32-bit cell that keeps the value last written to it (what the hardware
\* makes of the value is modelled for one instance, above); an operation
\* reaches a register through the base address of its instance.

UART_A_BASE == 1879072768       \* 0x7000_6000
UART_B_BASE == 1879072832       \* 0x7000_6040
UART_C_BASE == 1879073280       \* 0x7000_6200
UART_D_BASE == 1879073536       \* 0x7000_6300
UART_E_BASE == 1879073792       \* 0x7000_6400

Instances == {"A", "B", "C", "D", "E"}

\* Uart::A .. Uart::E: the register block and the clock of each instance.
Base(i) ==
    CASE i = "A" -> UART_A_BASE
      [] i = "B" -> UART_B_BASE
      [] i = "C" -> UART_C_BASE
      [] i = "D" -> UART_D_BASE
      [] i = "E" -> UART_E_BASE

ClockOf(i) ==
    CASE i = "A" -> "UART_A"
      [] i = "B" -> "UART_B"
      [] i = "C" -> "UART_C"
      [] i = "D" -> "UART_D"
      [] i = "E" -> "UART_APE"

\* struct Registers, #[repr(C)]: twelve 32-bit registers, 0xC unknown bytes
\* and the ASR register.
RegisterNames ==
    << "THR_DLAB", "IER_DLAB", "IIR_FCR", "LCR", "MCR", "LSR", "MSR", "SPR",
       "IRDA_CSR", "RX_FIFO_CFG", "MIE", "VENDOR_STATUS" >>

RegistersSize == 4 * Len(RegisterNames) + 12 + 4

\* Byte offset of a register in the block.
Offset(reg) == 4 * ((CHOOSE n \in 1..Len(RegisterNames) : RegisterNames[n] = reg) - 1)

\* Offsets of the 32-bit cells of a block.
Cells == {4 * n : n \in 0..((RegistersSize \div 4) - 1)}

\* Addresses of the block of instance i.
Block(i) == Base(i)..(Base(i) + RegistersSize - 1)

\* Mutant: every instance is reached through the base address of UART A.
Address_of_first_instance(i, reg) == UART_A_BASE + Offset(reg)

\* &(*self.registers).reg
Address(i, reg) == Base(i) + Offset(reg)

\* The accesses of init in program order, without the polls that have to be
\* repeated and without the sleeps. A write carries what it writes: a fixed
\* value, or a value derived from the preceding read.
InitAccesses ==
    << [k |-> "clk", reg |-> "", v |-> 0],
       [k |-> "r", reg |-> "LSR", v |-> 0],
       [k |-> "w", reg |-> "IER_DLAB", v |-> 0],
       [k |-> "w", reg |-> "MCR", v |-> 0],
       [k |-> "w", reg |-> "LCR", v |-> BitOr(DLAB, WORD_LENGTH_8)],
       [k |-> "w", reg |-> "THR_DLAB", v |-> divisor(115200)],
       [k |-> "w", reg |-> "IER_DLAB", v |-> divisor(115200) \div 256],
       [k |-> "r", reg |-> "LCR", v |-> 0],
       [k |-> "w_clear", reg |-> "LCR", v |-> DLAB],
       [k |-> "r", reg |-> "SPR", v |-> 0],
       [k |-> "w", reg |-> "IIR_FCR", v |-> FCR_EN_FIFO],
       [k |-> "r", reg |-> "SPR", v |-> 0],
       [k |-> "r", reg |-> "LSR", v |-> 0],
       [k |-> "r", reg |-> "IIR_FCR", v |-> 0],
       [k |-> "w_or", reg |-> "IIR_FCR", v |-> BitOr(RX_CLR, TX_CLR)],
       [k |-> "r", reg |-> "LSR", v |-> 0],
       [k |-> "r", reg |-> "LSR", v |-> 0] >>

\* The value the access a writes when the preceding read returned r.
Written(a, r) ==
    CASE a.k = "w" -> a.v
      [] a.k = "w_clear" -> BitClear(r, a.v)
      [] a.k = "w_or" -> BitOr(r, a.v)

\* The next access of init on instance i. bus.mem is the address space,
\* bus.alone[i] the block of instance i as it would be if only instance i
\* were operated; bus.read and bus.readAlone hold the value of the last read.
bus_init_step(i) ==
    /\ i \in bus.active
    /\ bus.at[i] < Len(InitAccesses)
    /\ LET a == InitAccesses[bus.at[i] + 1]
           addr == Address(i, a.reg)
       IN  bus' =
             [bus EXCEPT
                !.at[i] = @ + 1,
                !.clk = IF a.k = "clk" THEN @ \cup {ClockOf(i)} ELSE @,
                !.touched[i] = IF a.k = "clk" THEN @ ELSE @ \cup {addr},
                !.read[i] = IF a.k = "r" THEN bus.mem[addr] ELSE @,
                !.readAlone[i] = IF a.k = "r" THEN bus.alone[i][Offset(a.reg)] ELSE @,
                !.mem = IF a.k \in {"w", "w_clear", "w_or"}
                        THEN [@ EXCEPT ![addr] = Written(a, bus.read[i])]
                        ELSE @,
                !.alone[i] = IF a.k \in {"w", "w_clear", "w_or"}
                             THEN [@ EXCEPT ![Offset(a.reg)] = Written(a, bus.readAlone[i])]
                             ELSE @]
    /\ UNCHANGED <<hw, pc, stack, op, ready, calls, ctx, timer, writer, fuse, pinmux, locals, hist>>

\* Hardware raises a bit of the interrupt identification register of
\* instance i (a read-only register at the address of IIR_FCR).
bus_hw_iir(i) ==
    /\ i \in bus.active
    /\ bus.at[i] < Len(InitAccesses)
    /\ InitAccesses[bus.at[i] + 1] = [k |-> "r", reg |-> "IIR_FCR", v |-> 0]
    /\ \E v \in IirValues :
          /\ bus.mem[Base(i) + Offset("IIR_FCR")] # v
          /\ bus' = [bus EXCEPT !.mem[Base(i) + Offset("IIR_FCR")] = v,
                                !.alone[i][Offset("IIR_FCR")] = v]
    /\ UNCHANGED <<hw, pc, stack, op, ready, calls, ctx, timer, writer, fuse, pinmux, locals, hist>>

BusInit ==
    /\ \E s \in SUBSET Instances :
          /\ s # {}
          /\ Cardinality(s) <= MaxActive
          /\ bus = [ active |-> s,
                     at |-> [i \in Instances |-> 0],
                     clk |-> {},
                     touched |-> [i \in Instances |-> {}],
                     read |-> [i \in Instances |-> 0],
                     readAlone |-> [i \in Instances |-> 0],
                     mem |-> [a \in UNION {{Base(i) + c : c \in Cells} : i \in Instances}
                                |-> 0],
                     alone |-> [i \in Instances |-> [c \in Cells |-> 0]] ]
    /\ timer = NoTimer
    /\ writer = NoWriter /\ fuse = NoFuse /\ pinmux = NoPinmux
    /\ lcr = 0 /\ ier = 0 /\ mcr = 0 /\ fcr = 0 /\ dll = 0 /\ dlm = 0
    /\ txFifo = <<>> /\ txShift = <<>> /\ rxFifo = <<>> /\ rxSent = 0
    /\ clockOn = FALSE
    /\ pc = "idle" /\ stack = <<>> /\ op = "none" /\ ready = FALSE /\ calls = 0
    /\ baud = 0 /\ baud_rate = 0 /\ tmp = 0 /\ status = 0 /\ byte = 0
    /\ str = <<>> /\ idx = 0 /\ buffer = <<>> /\ retval = 0 /\ amount = 0
    /\ log = <<>> /\ rxTaken = <<>> /\ polls = 0 /\ latched = <<>>
    /\ ctx = NoContexts

BusNext ==
    \/ \E i \in Instances : bus_init_step(i)
    \/ \E i \in Instances : bus_hw_iir(i)

BusSpec == BusInit /\ [][BusNext]_vars

\* ------------------------------------------------- transfers before init
\* write_byte and read_byte are public methods of the instances, which are
\* public constants: nothing in the code keeps a caller from invoking them
\* on an instance whose init has not run.

early_write_byte ==
    /\ ~ready
    /\ Enter("write_byte")
    /\ \E v \in TxBytes : byte' = v
    /\ baud' = 0 /\ baud_rate' = 0 /\ tmp' = 0 /\ status' = 0
    /\ str' = <<>> /\ idx' = 0 /\ buffer' = <<>> /\ retval' = 0 /\ amount' = 0

early_read_byte ==
    /\ ~ready
    /\ Enter("read_byte")
    /\ baud' = 0 /\ baud_rate' = 0 /\ tmp' = 0 /\ status' = 0 /\ byte' = 0
    /\ str' = <<>> /\ idx' = 0 /\ buffer' = <<>> /\ retval' = 0 /\ amount' = 0

EarlyNext ==
    \/ early_write_byte \/ early_read_byte
    \/ wait_transmit \/ wait_receive
    \/ write_byte \/ read_byte
    \/ hw_tx_load \/ hw_tx_done \/ hw_rx

EarlySpec == Init /\ [][EarlyNext]_vars

\* ------------------------------------------------------------------ timer
\* timer/mod.rs: the free-running microsecond counter TIMERUS_CNTR_1US, a
\* u32 that the hardware advances and that wraps at 2^32, and the busy wait
\* built on it. timer.ticks counts the ticks since usleep read its start.

\* Counter values at which a behaviour starts: far from the wrap and just
\* before it.
CounterStarts ==
    { U32(0), U32(1000), <<65535, 65533>>, <<65535, 65534>>, <<65535, 65535>> }

Durations == 0..MaxDuration

\* get_microseconds()
get_microseconds == timer.cntr

\* The subtraction a - b on u32 overflows when a < b. A build with overflow
\* checks panics there; a build without them wraps.
SubOverflows(a, b) == U32Less(a, b)

\* The hardware advances the counter by one microsecond.
hw_tick ==
    /\ timer.age < MaxTicks
    /\ timer' = [timer EXCEPT
                    !.cntr = U32Add(@, <<0, 1>>),
                    !.age = @ + 1,
                    !.ticks = IF timer.pc \in {"usleep_poll", "dsi_poll"} THEN @ + 1 ELSE @]
    /\ UNCHANGED <<hw, pc, stack, op, ready, calls, ctx, bus, writer, fuse, pinmux, locals, hist>>

timer_call_usleep ==
    /\ timer.pc = "idle"
    /\ \E d \in Durations :
          timer' = [timer EXCEPT !.pc = "usleep", !.duration = d, !.ticks = 0,
                                 !.polled = FALSE, !.spins = 0]
    /\ UNCHANGED <<hw, pc, stack, op, ready, calls, ctx, bus, writer, fuse, pinmux, locals, hist>>

\* pub fn usleep(duration: u32)
timer_usleep ==
    /\ \/ /\ timer.pc = "usleep"              \* let start = get_microseconds();
          /\ timer' = [timer EXCEPT !.pc = "usleep_poll", !.start = get_microseconds]
       \/ /\ timer.pc = "usleep_poll"         \* while (get_microseconds() - start) < duration {}
          /\ IF timer.checks /\ SubOverflows(get_microseconds, timer.start)
             THEN timer' = [timer EXCEPT !.pc = "panic"]
             ELSE LET elapsed == U32Sub(get_microseconds, timer.start)
                  IN  IF U32Less(elapsed, U32(timer.duration))
                      THEN /\ timer.spins < MaxPolls
                           /\ timer' = [timer EXCEPT !.elapsed = elapsed,
                                                     !.seen = timer.ticks,
                                                     !.polled = TRUE,
                                                     !.spins = @ + 1]
                      ELSE timer' = [timer EXCEPT !.elapsed = elapsed,
                                                  !.seen = timer.ticks,
                                                  !.polled = TRUE,
                                                  !.pc = "idle"]
    /\ UNCHANGED <<hw, pc, stack, op, ready, calls, ctx, bus, writer, fuse, pinmux, locals, hist>>

TimerInit ==
    /\ \E c \in CounterStarts, checks \in BOOLEAN :
          timer = [ pc |-> "idle", checks |-> checks, cntr |-> c, start |-> U32(0),
                    duration |-> 0, elapsed |-> U32(0), ticks |-> 0, seen |-> 0,
                    polled |-> FALSE, spins |-> 0, age |-> 0 ]
    /\ bus = NoBus
    /\ writer = NoWriter /\ fuse = NoFuse /\ pinmux = NoPinmux
    /\ lcr = 0 /\ ier = 0 /\ mcr = 0 /\ fcr = 0 /\ dll = 0 /\ dlm = 0
    /\ txFifo = <<>> /\ txShift = <<>> /\ rxFifo = <<>> /\ rxSent = 0
    /\ clockOn = FALSE
    /\ pc = "idle" /\ stack = <<>> /\ op = "none" /\ ready = FALSE /\ calls = 0
    /\ baud = 0 /\ baud_rate = 0 /\ tmp = 0 /\ status = 0 /\ byte = 0
    /\ str = <<>> /\ idx = 0 /\ buffer = <<>> /\ retval = 0 /\ amount = 0
    /\ log = <<>> /\ rxTaken = <<>> /\ polls = 0 /\ latched = <<>>
    /\ ctx = NoContexts

TimerNext == timer_call_usleep \/ timer_usleep \/ hw_tick

TimerSpec == TimerInit /\ [][TimerNext]_vars

\* --------------------------------------------------------------- dsi_wait
\* display/display.rs: dsi_wait polls a DSI register until its masked bits
\* read as zero or a deadline on the microsecond counter has passed, and then
\* sleeps. timer.busy says whether the masked bits are non-zero; timer.ticks
\* counts the ticks since dsi_wait read the counter.

\* The addition a + b on u32 overflows when the sum passes 2^32. A build
\* with overflow checks panics there; a build without them wraps.
AddOverflows(a, b) == U32Less(U32Add(a, b), a)

\* The display hardware clears the awaited bits.
hw_dsi_update ==
    /\ timer.busy
    /\ timer' = [timer EXCEPT !.busy = FALSE]
    /\ UNCHANGED <<hw, pc, stack, op, ready, calls, ctx, bus, writer, fuse, pinmux, locals, hist>>

timer_call_dsi_wait ==
    /\ timer.pc = "idle"
    /\ ~timer.finished
    /\ \E d \in Durations :
          timer' = [timer EXCEPT !.pc = "dsi_wait", !.timeout = d, !.ticks = 0]
    /\ UNCHANGED <<hw, pc, stack, op, ready, calls, ctx, bus, writer, fuse, pinmux, locals, hist>>

\* unsafe fn dsi_wait(timeout: u32, offset: u32, mask: u32)
timer_dsi_wait ==
    /\ \/ /\ timer.pc = "dsi_wait"            \* let end = get_microseconds() + timeout;
          /\ IF timer.checks /\ AddOverflows(get_microseconds, U32(timer.timeout))
             THEN timer' = [timer EXCEPT !.pc = "panic"]
             ELSE timer' = [timer EXCEPT
                              !.pc = "dsi_poll",
                              !.end = U32Add(get_microseconds, U32(timer.timeout))]
       \/ /\ timer.pc = "dsi_poll"
             \* while get_microseconds() < end && register.read() & mask != 0 {}
          /\ IF U32Less(get_microseconds, timer.end) /\ timer.busy
             THEN /\ timer.spins < MaxPolls
                  /\ timer' = [timer EXCEPT
                                  !.spins = @ + 1,
                                  !.late = @ \/ timer.ticks >= timer.timeout]
             ELSE timer' = [timer EXCEPT
                              !.pc = "dsi_sleep",
                              !.stopped = [ticks |-> timer.ticks, busy |-> timer.busy]]
       \/ /\ timer.pc = "dsi_sleep"           \* usleep(5);
          /\ IF timer.checks /\ AddOverflows(get_microseconds, U32(5))
             THEN timer' = [timer EXCEPT !.pc = "panic"]
             ELSE timer' = [timer EXCEPT
                              !.pc = "idle",
                              !.finished = TRUE,
                              !.slept = 5,
                              !.cntr = U32Add(@, U32(5))]
    /\ UNCHANGED <<hw, pc, stack, op, ready, calls, ctx, bus, writer, fuse, pinmux, locals, hist>>

DsiInit ==
    /\ \E c \in CounterStarts, checks \in BOOLEAN, b \in BOOLEAN :
          timer = [ pc |-> "idle", checks |-> checks, cntr |-> c, end |-> U32(0),
                    timeout |-> 0, ticks |-> 0, busy |-> b, late |-> FALSE,
                    stopped |-> [ticks |-> 0, busy |-> FALSE], slept |-> 0,
                    finished |-> FALSE, spins |-> 0, age |-> 0 ]
    /\ bus = NoBus
    /\ writer = NoWriter /\ fuse = NoFuse /\ pinmux = NoPinmux
    /\ lcr = 0 /\ ier = 0 /\ mcr = 0 /\ fcr = 0 /\ dll = 0 /\ dlm = 0
    /\ txFifo = <<>> /\ txShift = <<>> /\ rxFifo = <<>> /\ rxSent = 0
    /\ clockOn = FALSE
    /\ pc = "idle" /\ stack = <<>> /\ op = "none" /\ ready = FALSE /\ calls = 0
    /\ baud = 0 /\ baud_rate = 0 /\ tmp = 0 /\ status = 0 /\ byte = 0
    /\ str = <<>> /\ idx = 0 /\ buffer = <<>> /\ retval = 0 /\ amount = 0
    /\ log = <<>> /\ rxTaken = <<>> /\ polls = 0 /\ latched = <<>>
    /\ ctx = NoContexts

DsiNext == timer_call_dsi_wait \/ timer_dsi_wait \/ hw_tick \/ hw_dsi_update

DsiSpec == DsiInit /\ [][DsiNext]_vars

\* -------------------------------------------------------- real-time clock
\* timer/mod.rs: the millisecond counter of the RTC runs from 0 to 999 and
\* then starts again while the seconds counter advances; a read of the
\* millisecond register takes a snapshot of the seconds into the shadow
\* register. timer.ticks counts the milliseconds since msleep read its start.

\* Times at which a behaviour starts: inside a second and just before its end.
RtcStarts == {0, 500, 997, 998, 999} \X {0, 7}

\* get_milliseconds(): RTC_MILLI_SECONDS.read() | (RTC_SHADOW_SECONDS.read() << 10).
\* The seconds of a behaviour stay far below 2^22, so the shift drops no bit.
get_milliseconds == BitOr(timer.ms, timer.sec * 1024)

\* One millisecond passes.
hw_rtc_tick ==
    /\ timer.age < MaxTicks
    /\ timer' = [timer EXCEPT
                    !.ms = (@ + 1) % 1000,
                    !.sec = IF timer.ms = 999 THEN @ + 1 ELSE @,
                    !.age = @ + 1,
                    !.ticks = IF timer.pc = "msleep_poll" THEN @ + 1 ELSE @]
    /\ UNCHANGED <<hw, pc, stack, op, ready, calls, ctx, bus, writer, fuse, pinmux, locals, hist>>

timer_call_msleep ==
    /\ timer.pc = "idle"
    /\ \E d \in Durations :
          timer' = [timer EXCEPT !.pc = "msleep", !.duration = d, !.ticks = 0,
                                 !.polled = FALSE, !.spins = 0]
    /\ UNCHANGED <<hw, pc, stack, op, ready, calls, ctx, bus, writer, fuse, pinmux, locals, hist>>

\* pub fn msleep(duration: u32)
timer_msleep ==
    /\ \/ /\ timer.pc = "msleep"              \* let start = get_milliseconds();
          /\ timer' = [timer EXCEPT !.pc = "msleep_poll", !.start = get_milliseconds]
       \/ /\ timer.pc = "msleep_poll"         \* while (get_milliseconds() - start) < duration {}
          /\ LET elapsed == get_milliseconds - timer.start
             IN  IF elapsed < timer.duration
                 THEN /\ timer.spins < MaxPolls
                      /\ timer' = [timer EXCEPT !.elapsed = elapsed,
                                                !.seen = timer.ticks,
                                                !.polled = TRUE,
                                                !.spins = @ + 1]
                 ELSE timer' = [timer EXCEPT !.elapsed = elapsed,
                                             !.seen = timer.ticks,
                                             !.polled = TRUE,
                                             !.pc = "idle"]
    /\ UNCHANGED <<hw, pc, stack, op, ready, calls, ctx, bus, writer, fuse, pinmux, locals, hist>>

RtcInit ==
    /\ \E s \in RtcStarts :
          timer = [ pc |-> "idle", ms |-> s[1], sec |-> s[2], start |-> 0,
                    duration |-> 0, elapsed |-> 0, ticks |-> 0, seen |-> 0,
                    polled |-> FALSE, spins |-> 0, age |-> 0 ]
    /\ bus = NoBus
    /\ writer = NoWriter /\ fuse = NoFuse /\ pinmux = NoPinmux
    /\ lcr = 0 /\ ier = 0 /\ mcr = 0 /\ fcr = 0 /\ dll = 0 /\ dlm = 0
    /\ txFifo = <<>> /\ txShift = <<>> /\ rxFifo = <<>> /\ rxSent = 0
    /\ clockOn = FALSE
    /\ pc = "idle" /\ stack = <<>> /\ op = "none" /\ ready = FALSE /\ calls = 0
    /\ baud = 0 /\ baud_rate = 0 /\ tmp = 0 /\ status = 0 /\ byte = 0
    /\ str = <<>> /\ idx = 0 /\ buffer = <<>> /\ retval = 0 /\ amount = 0
    /\ log = <<>> /\ rxTaken = <<>> /\ polls = 0 /\ latched = <<>>
    /\ ctx = NoContexts

RtcNext == timer_call_msleep \/ timer_msleep \/ hw_rtc_tick

RtcSpec == RtcInit /\ [][RtcNext]_vars

\* ------------------------------------------------------ framebuffer writer
\* display/writer.rs: the Writer keeps a cursor (x, y) in pixels and draws
\* 8x8 glyphs from the font table into the framebuffer. A glyph is named
\* here by the character its font row is for; writer.last tells what the
\* last call did: its argument, its result ("ok", "err", or "panic" when the
\* call did not return), the font row it drew (-1 when it drew nothing), the
\* pixel it drew from, and how far it moved x.

FRAMEBUFFER_HEIGHT == 1280
FRAMEBUFFER_WIDTH == 720
GFX_STRIDE == 720

\* GFX_FONT: [[u8; 8]; 95], one row of eight bytes per character 32..126.
FontRows == 95

\* The character the font row at index i is for.
GFX_FONT(i) == 32 + i

\* Arguments of write_char: the line feed, the ends of the printable range
\* and of the part of it whose index stays inside the table, and characters
\* outside the range.
Characters == {10, 31, 32, 33, 43, 44, 126, 127}

\* The index write_char computes: 8 * (char_num as usize - 32).
FontIndex(char_num) == 8 * (char_num - 32)

\* pub fn new_line(&mut self), on the cursor <<x, y>>
new_line(cursor) ==
    LET y == cursor[2] + 8
    IN  <<0, IF y > FRAMEBUFFER_HEIGHT - 8 THEN 0 ELSE y>>

\* pub fn write_char(&mut self, character: char)
writer_write_char ==
    /\ writer.last.result # "panic"
    /\ \E character \in Characters :
          IF character = 10
          THEN /\ writer' = [writer EXCEPT
                               !.x = new_line(<<writer.x, writer.y>>)[1],
                               !.y = new_line(<<writer.x, writer.y>>)[2],
                               !.last = [c |-> character, result |-> "ok", row |-> -1,
                                         from |-> -1, dx |-> 0]]
          ELSE IF character < 32 \/ character > 126
          THEN writer' = [writer EXCEPT
                            !.last = [c |-> character, result |-> "err", row |-> -1,
                                      from |-> -1, dx |-> 0]]
          ELSE IF FontIndex(character) >= FontRows
          THEN writer' = [writer EXCEPT
                            !.last = [c |-> character, result |-> "panic", row |-> -1,
                                      from |-> -1, dx |-> 0]]
          ELSE /\ writer.x < FRAMEBUFFER_WIDTH + 8 * (MaxOverrun - 1)
               /\ writer' = [writer EXCEPT
                               !.x = @ + 8,
                               !.last = [c |-> character, result |-> "ok",
                                         row |-> GFX_FONT(FontIndex(character)),
                                         from |-> writer.x + writer.y * GFX_STRIDE,
                                         dx |-> 8]]
    /\ UNCHANGED <<hw, pc, stack, op, ready, calls, ctx, bus, timer, fuse, pinmux, locals, hist>>

\* new_line called on its own.
writer_new_line ==
    /\ writer.last.result # "panic"
    /\ writer' = [writer EXCEPT
                    !.x = new_line(<<writer.x, writer.y>>)[1],
                    !.y = new_line(<<writer.x, writer.y>>)[2],
                    !.last = [c |-> -1, result |-> "ok", row |-> -1, from |-> -1, dx |-> 0]]
    /\ UNCHANGED <<hw, pc, stack, op, ready, calls, ctx, bus, timer, fuse, pinmux, locals, hist>>

\* The uart is not used.
UartAtRest ==
    /\ lcr = 0 /\ ier = 0 /\ mcr = 0 /\ fcr = 0 /\ dll = 0 /\ dlm = 0
    /\ txFifo = <<>> /\ txShift = <<>> /\ rxFifo = <<>> /\ rxSent = 0
    /\ clockOn = FALSE
    /\ pc = "idle" /\ stack = <<>> /\ op = "none" /\ ready = FALSE /\ calls = 0
    /\ baud = 0 /\ baud_rate = 0 /\ tmp = 0 /\ status = 0 /\ byte = 0
    /\ str = <<>> /\ idx = 0 /\ buffer = <<>> /\ retval = 0 /\ amount = 0
    /\ log = <<>> /\ rxTaken = <<>> /\ polls = 0 /\ latched = <<>>
    /\ ctx = NoContexts

\* Writer::new()
WriterInit ==
    /\ writer = [ x |-> 0, y |-> 0,
                  last |-> [c |-> -1, result |-> "ok", row |-> -1, from |-> -1, dx |-> 0] ]
    /\ bus = NoBus /\ timer = NoTimer /\ fuse = NoFuse /\ pinmux = NoPinmux
    /\ UartAtRest

WriterNext == writer_write_char \/ writer_new_line

WriterSpec == WriterInit /\ [][WriterNext]_vars

\* ------------------------------------------------------------------- fuse
\* fuse/mod.rs: the fuse controller is driven through its control register,
\* whose bits 16..19 show the state of the controller and whose low two bits
\* take a command. fuse.ctrl holds the writable bits of the register,
\* fuse.state the state field, fuse.pending the command the controller has
\* been given and not yet completed, fuse.array the fuses, fuse.log the
\* register accesses of the call in progress.

STATE_MASK == 983040            \* 0xF0000
STATE_IDLE == 262144            \* 0x40000
\* A value of the state field other than STATE_IDLE: the controller is busy.
STATE_BUSY == STATE_IDLE + 65536
CMD_MASK == 3
FUSE_READ == 1
FUSE_WRITE == 2
FUSE_SENSE == 3

FuseAddresses == {0, 1}
FuseValues == {1, 2}

\* Command code of each operation.
FuseCode(o) ==
    CASE o = "hardware_read" -> FUSE_READ
      [] o = "hardware_write" -> FUSE_WRITE
      [] o = "hardware_sense" -> FUSE_SENSE

\* ctrl_reg.get()
FuseCtrl == BitOr(fuse.ctrl, fuse.state)

\* Mutant: the command is added to the bits read, the old command kept.
fuse_command_added(ctrl_val, code) == BitOr(ctrl_val, code)

\* ctrl_val &= !0x3; ctrl_val |= code;
fuse_command(ctrl_val, code) == BitOr(BitClear(ctrl_val, CMD_MASK), code)

FuseFrame ==
    UNCHANGED <<hw, pc, stack, op, ready, calls, ctx, bus, timer, writer, pinmux, locals, hist>>

\* The register access e, appended to the log of the call.
FuseLog(e) == Append(fuse.log, e)

\* The controller starts on the command it was given.
hw_fuse_start ==
    /\ fuse.pending # 0
    /\ fuse.state = STATE_IDLE
    /\ fuse' = [fuse EXCEPT !.state = STATE_BUSY]
    /\ FuseFrame

\* The controller completes what it is doing and goes idle.
hw_fuse_done ==
    /\ fuse.state # STATE_IDLE
    /\ fuse' = [fuse EXCEPT
                   !.state = STATE_IDLE,
                   !.pending = 0,
                   !.reg_read = IF fuse.pending = FUSE_READ
                                THEN fuse.array[fuse.reg_addr] ELSE @,
                   !.array = IF fuse.pending = FUSE_WRITE
                             THEN [@ EXCEPT ![fuse.reg_addr] = BitOr(@, fuse.reg_write)]
                             ELSE @,
                   !.sensed = IF fuse.pending = FUSE_SENSE THEN TRUE ELSE @]
    /\ FuseFrame

FuseEnter(name, a, v) ==
    /\ fuse.pc = "idle"
    /\ fuse.calls < MaxCalls
    /\ fuse' = [fuse EXCEPT !.pc = "wait_idle", !.back = name, !.op = name,
                            !.calls = @ + 1, !.log = <<>>, !.spins = 0,
                            !.ctrl_val = 0, !.result = 0,
                            !.address = a, !.value = v]

fuse_call_hardware_read ==
    /\ \E a \in FuseAddresses : FuseEnter("hardware_read", a, 0)
    /\ FuseFrame

fuse_call_hardware_write ==
    /\ \E a \in FuseAddresses, v \in FuseValues : FuseEnter("hardware_write", a, v)
    /\ FuseFrame

fuse_call_hardware_sense ==
    /\ FuseEnter("hardware_sense", 0, 0)
    /\ FuseFrame

\* pub fn wait_idle(): one turn of the loop, usleep(1) and a read of ctrl.
fuse_wait_idle ==
    /\ fuse.pc = "wait_idle"
    /\ IF BitAnd(FuseCtrl, STATE_MASK) # STATE_IDLE
       THEN /\ fuse.spins < MaxPolls
            /\ fuse' = [fuse EXCEPT !.spins = @ + 1]
       ELSE fuse' = [fuse EXCEPT
                       !.pc = fuse.back,
                       !.log = FuseLog([k |-> "r", reg |-> "ctrl", v |-> FuseCtrl])]
    /\ FuseFrame

\* The statements that issue the command of the operation in progress:
\* let mut ctrl_val = ctrl_reg.get(); ...; ctrl_reg.set(ctrl_val); wait_idle();
fuse_issue(done) ==
    \/ /\ fuse.pc = "ctrl_get"
       /\ fuse' = [fuse EXCEPT
                      !.pc = "ctrl_set",
                      !.ctrl_val = FuseCtrl,
                      !.log = FuseLog([k |-> "r", reg |-> "ctrl", v |-> FuseCtrl])]
    \/ /\ fuse.pc = "ctrl_set"
       /\ LET v == fuse_command(fuse.ctrl_val, FuseCode(fuse.op))
          IN  fuse' = [fuse EXCEPT
                         !.pc = "wait_idle",
                         !.back = done,
                         !.ctrl_val = v,
                         !.ctrl = BitClear(v, STATE_MASK),
                         !.pending = BitAnd(v, CMD_MASK),
                         !.log = FuseLog([k |-> "w", reg |-> "ctrl", v |-> v])]

\* pub fn hardware_read(address: u32) -> u32
fuse_hardware_read ==
    /\ fuse.op = "hardware_read"
    /\ \/ /\ fuse.pc = "hardware_read"
          /\ fuse' = [fuse EXCEPT
                         !.pc = "ctrl_get",
                         !.reg_addr = fuse.address,
                         !.log = FuseLog([k |-> "w", reg |-> "reg_addr", v |-> fuse.address])]
       \/ fuse_issue("read_result")
       \/ /\ fuse.pc = "read_result"
          /\ fuse' = [fuse EXCEPT
                         !.pc = "idle",
                         !.result = fuse.reg_read,
                         !.log = FuseLog([k |-> "r", reg |-> "reg_read", v |-> fuse.reg_read])]
    /\ FuseFrame

\* pub fn hardware_write(address: u32, value: u32)
fuse_hardware_write ==
    /\ fuse.op = "hardware_write"
    /\ \/ /\ fuse.pc = "hardware_write"
          /\ fuse' = [fuse EXCEPT
                         !.pc = "write_value",
                         !.reg_addr = fuse.address,
                         !.log = FuseLog([k |-> "w", reg |-> "reg_addr", v |-> fuse.address])]
       \/ /\ fuse.pc = "write_value"
          /\ fuse' = [fuse EXCEPT
                         !.pc = "ctrl_get",
                         !.reg_write = fuse.value,
                         !.log = FuseLog([k |-> "w", reg |-> "reg_write", v |-> fuse.value])]
       \/ fuse_issue("return")
       \/ /\ fuse.pc = "return"
          /\ fuse' = [fuse EXCEPT !.pc = "idle"]
    /\ FuseFrame

\* pub fn hardware_sense()
fuse_hardware_sense ==
    /\ fuse.op = "hardware_sense"
    /\ \/ /\ fuse.pc = "hardware_sense"
          /\ fuse' = [fuse EXCEPT !.pc = "ctrl_get"]
       \/ fuse_issue("return")
       \/ /\ fuse.pc = "return"
          /\ fuse' = [fuse EXCEPT !.pc = "idle"]
    /\ FuseFrame

\* The controller is idle or still busy; the control register
\* holds the command of an earlier operation or none, and one more bit.
FuseInit ==
    /\ \E s \in {STATE_IDLE, STATE_BUSY}, c \in {0, FUSE_WRITE, 256 + FUSE_SENSE} :
          fuse = [ pc |-> "idle", back |-> "idle", op |-> "none", calls |-> 0,
                   ctrl |-> c, state |-> s, pending |-> 0,
                   reg_addr |-> 0, reg_write |-> 0, reg_read |-> 0,
                   array |-> [a \in FuseAddresses |-> 4 + a], sensed |-> FALSE,
                   address |-> 0, value |-> 0, ctrl_val |-> 0, result |-> 0,
                   log |-> <<>>, spins |-> 0 ]
    /\ bus = NoBus /\ timer = NoTimer /\ writer = NoWriter /\ pinmux = NoPinmux
    /\ UartAtRest

FuseNext ==
    \/ fuse_call_hardware_read \/ fuse_call_hardware_write \/ fuse_call_hardware_sense
    \/ fuse_wait_idle
    \/ fuse_hardware_read \/ fuse_hardware_write \/ fuse_hardware_sense
    \/ hw_fuse_start \/ hw_fuse_done

FuseSpec == FuseInit /\ [][FuseNext]_vars

\* ----------------------------------------------------------------- pinmux
\* pinmux/mod.rs: configure_uart writes the pin registers of the uart whose
\* descriptor it is given. pinmux.regs holds the pin registers (those of the
\* four uarts and the registers next to them), pinmux.before their values
\* when the call in progress was made, pinmux.written its writes in order.

PULL_DOWN == 4
PULL_UP == 8
TRISTATE == 16
INPUT == 64

PinRegisters ==
    { "pwr_i2c_sda",
      "uart1_tx", "uart1_rx", "uart1_rts", "uart1_cts",
      "uart2_tx", "uart2_rx", "uart2_rts", "uart2_cts",
      "uart3_tx", "uart3_rx", "uart3_rts", "uart3_cts",
      "uart4_tx", "uart4_rx", "uart4_rts", "uart4_cts",
      "dap1_fs" }

\* The descriptor of instance i: its register block and its clock.
Uart(i) == [registers |-> Base(i), clock |-> ClockOf(i)]

\* Descriptors configure_uart is called with: the five instances, and
\* descriptors that share only one field with an instance.
Descriptors ==
    {Uart(i) : i \in Instances}
        \cup { [registers |-> UART_A_BASE, clock |-> "UART_B"],
               [registers |-> UART_E_BASE + RegistersSize, clock |-> "UART_A"] }

\* Mutant: the descriptor is compared by its register block only.
Matches_registers_only(uart, i) == uart.registers = Uart(i).registers

\* The pattern &Uart::i: the descriptor equals the constant in every field.
Matches(uart, i) == uart = Uart(i)

\* The writes of the arm of the match that the descriptor selects.
ArmWrites(uart) ==
    IF Matches(uart, "A")
    THEN << <<"uart1_tx", 0>>, <<"uart1_rx", BitOr(INPUT, PULL_UP)>>,
            <<"uart1_rts", 0>>, <<"uart1_cts", BitOr(INPUT, PULL_DOWN)>> >>
    ELSE IF Matches(uart, "B")
    THEN << <<"uart2_tx", 0>>, <<"uart2_rx", BitOr(INPUT, PULL_UP)>>,
            <<"uart2_rts", 0>>, <<"uart2_cts", BitOr(INPUT, PULL_DOWN)>> >>
    ELSE IF Matches(uart, "C")
    THEN << <<"uart3_tx", 0>>, <<"uart3_rx", BitOr(INPUT, PULL_UP)>>,
            <<"uart3_rts", 0>>, <<"uart3_cts", BitOr(INPUT, PULL_DOWN)>> >>
    ELSE IF Matches(uart, "D")
    THEN << <<"uart4_tx", 0>>, <<"uart4_rx", BitOr(INPUT, PULL_UP)>>,
            <<"uart4_rts", 0>>, <<"uart4_cts", BitOr(INPUT, PULL_DOWN)>> >>
    ELSE IF Matches(uart, "E")
    THEN <<>>
    ELSE <<>>

PinmuxFrame ==
    UNCHANGED <<hw, pc, stack, op, ready, calls, ctx, bus, timer, writer, fuse, locals, hist>>

pinmux_call_configure_uart ==
    /\ pinmux.pc = "idle"
    /\ pinmux.calls < MaxCalls
    /\ \E u \in Descriptors :
          pinmux' = [pinmux EXCEPT !.pc = "configure_uart", !.uart = u,
                                  !.calls = @ + 1, !.before = pinmux.regs,
                                  !.written = <<>>]
    /\ PinmuxFrame

\* pub fn configure_uart(&self, uart: &Uart): the next write of the arm, or
\* the return when the arm has no further write.
pinmux_configure_uart ==
    /\ pinmux.pc = "configure_uart"
    /\ LET ws == ArmWrites(pinmux.uart)
           n == Len(pinmux.written) + 1
       IN  IF n <= Len(ws)
           THEN pinmux' = [pinmux EXCEPT
                             !.regs[ws[n][1]] = ws[n][2],
                             !.written = Append(@, ws[n])]
           ELSE pinmux' = [pinmux EXCEPT !.pc = "idle"]
    /\ PinmuxFrame

\* The pin registers hold their reset value or an earlier configuration.
PinmuxInit ==
    /\ \E v \in {0, BitOr(TRISTATE, PULL_DOWN), BitOr(INPUT, BitOr(TRISTATE, PULL_UP))} :
          pinmux = [ pc |-> "idle", calls |-> 0, uart |-> Uart("A"),
                     regs |-> [r \in PinRegisters |-> v],
                     before |-> [r \in PinRegisters |-> v],
                     written |-> <<>> ]
    /\ bus = NoBus /\ timer = NoTimer /\ writer = NoWriter /\ fuse = NoFuse
    /\ UartAtRest

PinmuxNext == pinmux_call_configure_uart \/ pinmux_configure_uart

PinmuxSpec == PinmuxInit /\ [][PinmuxNext]_vars

\* ------------------------------------------------------------------ claims

\* The public operation name has returned and no other call has started.
Returned(name) == pc = "idle" /\ op = name

IsRead(e, reg) == e.k = "r" /\ e.reg = reg

IsWrite(e, reg) == e.k = "w" /\ e.reg = reg

\* Positions of the log that hold a register write.
Writes == {i \in 1..Len(log) : log[i].k = "w"}

\* C1: for every baud rate of the range, the divisor init computes in 32-bit
\* unsigned arithmetic equals floor((8*b + 408000000) / (16*b)) computed over
\* unbounded integers, and neither the numerator nor the denominator wraps.
C1_DivisorExact ==
    pc = "init_divisor_done" =>
        /\ baud_rate = (8 * baud + 408000000) \div (16 * baud)
        /\ U32Value(U32Add(U32Mul(8, U32(baud)), U32(UART_CLOCK_HZ)))
              = 8 * baud + 408000000
        /\ U32Value(U32Mul(16, U32(baud))) = 16 * baud

\* C1 witness: 4800 baud, where the bias rounds 5312.5 up to 5313.
C1_Witness == pc = "init_divisor_done" /\ baud = 4800 /\ baud_rate = 5313

\* C2: the divisor init computes is the integer nearest to 408000000 / (16*b):
\* 16*b*divisor differs from 408000000 by at most 8*b.
C2_DivisorNearest ==
    pc = "init_divisor_done" =>
        LET err == 16 * baud * baud_rate - 408000000
        IN  err <= 8 * baud /\ -err <= 8 * baud

\* C2 witness: 57600 baud, where 442.7 is rounded to 443.
C2_Witness == pc = "init_divisor_done" /\ baud = 57600 /\ baud_rate = 443

\* C3: whenever init returns, the line control register has the divisor latch
\* access bit clear and the last value written to the FIFO control register
\* has the FIFO enable bit set, whatever the read of the shared IIR/FCR
\* address returned.
C3_InitLeavesFifoEnabled ==
    Returned("init") => ~DlabSet /\ BitAnd(fcr, FCR_EN_FIFO) # 0

\* C4: init returns only when the hardware reports the transmitter idle and
\* the receiver idle (no unread data) together: the line status read that
\* ends init shows the transmit shift register empty and no data ready.
C4_InitReturnsIdle ==
    Returned("init") =>
        /\ log # <<>>
        /\ IsRead(log[Len(log)], "LSR")
        /\ BitAnd(log[Len(log)].v, TMTY) # 0
        /\ BitAnd(log[Len(log)].v, RDR) = 0

\* The hardware is idle: nothing queued or in flight in the transmitter and
\* no unread data in the receiver.
HwIdle == txFifo = <<>> /\ txShift = <<>> /\ rxFifo = <<>>

\* C5: on hardware that eventually reaches the idle state and stays in it,
\* every init call returns.
C5_InitTerminates ==
    (<>[]HwIdle) => [](op = "init" => <>(pc = "idle"))

\* C6: a write_byte(v) call writes the transmit holding register exactly
\* once, with v, directly after a line status read that showed the transmit
\* holding register empty, and writes no other register.
C6_WriteByte ==
    op = "write_byte" =>
        /\ \A i \in Writes :
              /\ IsWrite(log[i], "THR_DLAB")
              /\ log[i].v = byte
              /\ i > 1
              /\ IsRead(log[i - 1], "LSR")
              /\ BitAnd(log[i - 1].v, THRE) # 0
        /\ Cardinality(Writes) <= 1
        /\ pc = "idle" => Cardinality(Writes) = 1

\* C6 witness: a write_byte call has returned after writing its byte.
C6_Witness ==
    /\ Returned("write_byte")
    /\ byte = 66
    /\ Len(log) = 2
    /\ IsWrite(log[2], "THR_DLAB")

\* C7: a read_byte call reads the receive holding register exactly once,
\* after a line status read that showed data ready, returns the low 8 bits of
\* the value read, takes exactly one word out of the hardware and writes no
\* register.
C7_ReadByte ==
    op = "read_byte" =>
        /\ Writes = {}
        /\ \A i \in 1..Len(log) :
              IsRead(log[i], "THR_DLAB") =>
                  /\ i = 2
                  /\ IsRead(log[1], "LSR")
                  /\ BitAnd(log[1].v, RDR) # 0
        /\ Len(rxTaken) <= 1
        /\ pc = "idle" =>
              /\ Len(log) = 2
              /\ IsRead(log[2], "THR_DLAB")
              /\ rxTaken = <<log[2].v>>
              /\ retval = log[2].v % 256

\* C7 witness: read_byte has returned "B" from a word with a set upper bit.
C7_Witness ==
    /\ Returned("read_byte")
    /\ rxTaken = <<256 + 66>>
    /\ retval = 66

\* C8: when write_str returns, a line status read made after the last byte
\* was written has shown the transmit shift register empty.
C8_WriteStrDrained ==
    Returned("write_str") =>
        /\ log # <<>>
        /\ IsRead(log[Len(log)], "LSR")
        /\ BitAnd(log[Len(log)].v, TMTY) # 0

\* C9: write_str of k bytes writes the transmit holding register exactly k
\* times, with the bytes of the string in their order, each write directly
\* after its own line status read that showed the holding register empty.
C9_WriteStr ==
    op = "write_str" =>
        /\ \A i \in 1..Len(log) :
              IF i % 2 = 1
              THEN IsRead(log[i], "LSR") /\ BitAnd(log[i].v, THRE) # 0
              ELSE /\ IsWrite(log[i], "THR_DLAB")
                   /\ i \div 2 <= Len(str)
                   /\ log[i].v = str[i \div 2]
        /\ pc = "idle" => Len(log) = 2 * Len(str) + 1

\* C9 witness: write_str has returned after writing "AB".
C9_Witness ==
    /\ Returned("write_str")
    /\ str = <<65, 66>>
    /\ Len(log) = 5

\* Positions of the log that hold a read of the receive holding register.
DataReads == {i \in 1..Len(log) : IsRead(log[i], "THR_DLAB")}

\* C10: read(buffer) with a buffer of length n reads the receive holding
\* register exactly n times and stores the i-th word the hardware handed out,
\* cut to a byte, in buffer[i].
C10_Read ==
    op = "read" =>
        /\ Cardinality(DataReads) = Len(rxTaken)
        /\ Len(rxTaken) <= Len(buffer)
        /\ \A i \in 1..Len(rxTaken) : i <= idx => buffer[i] = rxTaken[i] % 256
        /\ pc = "idle" =>
              /\ Len(rxTaken) = Len(buffer)
              /\ \A i \in 1..Len(buffer) : buffer[i] = rxTaken[i] % 256

\* C10 witness: read has returned after filling a buffer of two bytes.
C10_Witness ==
    /\ Returned("read")
    /\ Len(buffer) = 2
    /\ Len(rxTaken) = 2
    /\ buffer[1] # buffer[2]

\* C13: when init has returned twice in a row with the same baud rate, the
\* divisor latches hold after the second call what they held after the first,
\* and the divisor latch access bit is clear again.
C13_InitIdempotent ==
    Returned("init") /\ Len(latched) = 2 /\ latched[1].baud = latched[2].baud =>
        /\ latched[2].dll = latched[1].dll
        /\ latched[2].dlm = latched[1].dlm
        /\ dll = latched[1].dll
        /\ dlm = latched[1].dlm
        /\ ~DlabSet

\* C13 witness: init(115200) has returned twice; the latches hold 221 and 0.
C13_Witness ==
    /\ Returned("init")
    /\ Len(latched) = 2
    /\ latched[1].baud = 115200
    /\ latched[2].baud = 115200
    /\ dll = 221 /\ dlm = 0
    /\ ~DlabSet

\* The write at position i of the log is made while the divisor latch is
\* open: the line control write before it set the access bit.
LatchOpen(i) ==
    \E j \in 1..(i - 1) :
        /\ IsWrite(log[j], "LCR")
        /\ BitAnd(log[j].v, DLAB) # 0
        /\ \A k \in (j + 1)..(i - 1) : ~IsWrite(log[k], "LCR")

\* C14: init writes the first register exactly once, while the divisor latch
\* is open, with exactly the low 8 bits of the divisor (a value in 0..255),
\* and directly after it the second register, the latch still open, with
\* exactly the high 8 bits (divisor >> 8, a value in 0..255).
C14_DivisorBytes ==
    Returned("init") =>
        LET d == (8 * baud + 408000000) \div (16 * baud)
        IN  \E i \in 1..(Len(log) - 1) :
                /\ \A j \in Writes : IsWrite(log[j], "THR_DLAB") => j = i
                /\ IsWrite(log[i], "THR_DLAB")
                /\ LatchOpen(i)
                /\ log[i].v = d % 256
                /\ log[i].v \in 0..255
                /\ IsWrite(log[i + 1], "IER_DLAB")
                /\ LatchOpen(i + 1)
                /\ log[i + 1].v = d \div 256
                /\ log[i + 1].v \in 0..255

\* The arguments and the duration of the first and of the second application
\* of a wait in the log.
FirstArgs == log[1].v
FirstBaud == log[1].v[1]
FirstAmount == log[1].v[2]
FirstSleep == log[2].v
SecondArgs == log[3].v
SecondSleep == log[4].v

\* C15: wait_symbols(baud, 3) sleeps for exactly ceil(3 * 1000000 / baud)
\* microseconds for every baud rate of the range, the 32-bit numerator
\* 3 * 1000000 + baud - 1 does not wrap, and wait_symbols(9600, 3) sleeps for
\* 313 microseconds.
C15_WaitSymbols ==
    op = "wait_symbols" /\ Len(log) >= 2 /\ FirstAmount = 3 =>
        /\ FirstSleep = (3 * 1000000 + FirstBaud - 1) \div FirstBaud
        /\ FirstSleep * FirstBaud >= 3 * 1000000
        /\ (FirstSleep - 1) * FirstBaud < 3 * 1000000
        /\ U32Value(U32Sub(U32Add(U32Mul(3, U32(1000000)), U32(FirstBaud)), U32(1)))
              = 3 * 1000000 + FirstBaud - 1
        /\ FirstBaud = 9600 => FirstSleep = 313

\* C15 witness: wait_symbols(9600, 3) has slept for 313 microseconds.
C15_Witness ==
    /\ op = "wait_symbols"
    /\ Len(log) = 2
    /\ FirstArgs = <<9600, 3>>
    /\ log[2] = [k |-> "sleep", reg |-> "usleep", v |-> 313]

\* C16: wait_cycles(baud, n) sleeps for exactly
\* ceil(n * 1000000 / (16 * baud)) microseconds for n = 3 and n = 32 and every
\* baud rate of the range, and neither the 32-bit numerator
\* n * 1000000 + 16 * baud - 1 nor the denominator 16 * baud wraps.
C16_WaitCycles ==
    op = "wait_cycles" /\ Len(log) >= 2 /\ FirstAmount \in {3, 32} =>
        LET b == FirstBaud
            n == FirstAmount
        IN  /\ FirstSleep = (n * 1000000 + 16 * b - 1) \div (16 * b)
            /\ FirstSleep * 16 * b >= n * 1000000
            /\ (FirstSleep - 1) * 16 * b < n * 1000000
            /\ U32Value(U32Sub(U32Add(U32Mul(n, U32(1000000)), U32Mul(16, U32(b))),
                               U32(1)))
                  = n * 1000000 + 16 * b - 1
            /\ U32Value(U32Mul(16, U32(b))) = 16 * b

\* C16 witness: wait_cycles(115200, 32) has slept for 18 microseconds
\* (32000000 / 1843200 = 17.4).
C16_Witness ==
    /\ op = "wait_cycles"
    /\ Len(log) = 2
    /\ FirstArgs = <<115200, 32>>
    /\ log[2] = [k |-> "sleep", reg |-> "usleep", v |-> 18]

\* C17 (as stated): wait_cycles(9600, 32) sleeps for 3334 microseconds.
C17_WaitCycles3334 ==
    op = "wait_cycles" /\ Len(log) >= 2 /\ FirstArgs = <<9600, 32>> =>
        FirstSleep = 3334

\* C17 (amended): wait_cycles(9600, 32) sleeps for 209 microseconds, which is
\* ceil(32000000 / 153600).
C17_WaitCycles209 ==
    op = "wait_cycles" /\ Len(log) >= 2 /\ FirstArgs = <<9600, 32>> =>
        FirstSleep = 209

\* C17 witness: wait_cycles(9600, 32) has handed 209 to usleep.
C17_Witness ==
    /\ op = "wait_cycles"
    /\ pc = "idle"
    /\ log = << [k |-> "call", reg |-> "wait_cycles", v |-> <<9600, 32>>],
                [k |-> "sleep", reg |-> "usleep", v |-> 209] >>

\* C18: the durations of wait_symbols and of wait_cycles are monotone: from
\* one application to the next, the duration does not decrease when the
\* amount grows at the same baud rate, and does not increase when the baud
\* rate grows at the same amount (baud rates of the range, amounts 0..64).
C18_WaitMonotone ==
    Len(log) = 4 =>
        /\ FirstArgs[1] = SecondArgs[1] /\ FirstArgs[2] <= SecondArgs[2]
              => FirstSleep <= SecondSleep
        /\ FirstArgs[2] = SecondArgs[2] /\ FirstArgs[1] <= SecondArgs[1]
              => SecondSleep <= FirstSleep

\* C18 witness: wait_symbols(300, 64) and then wait_symbols(12500000, 64)
\* have slept for 213334 and for 6 microseconds.
C18_Witness ==
    /\ op = "wait_symbols"
    /\ Len(log) = 4
    /\ FirstArgs = <<300, 64>>
    /\ SecondArgs = <<12500000, 64>>
    /\ FirstSleep = 213334
    /\ SecondSleep = 6

\* Positions of the log that hold a line status read.
StatusReads == {i \in 1..Len(log) : IsRead(log[i], "LSR")}

\* C12: a write_byte call polls the line status until it reads the transmit
\* holding register empty, then stops polling and writes the byte once: it
\* never writes unless the read just before showed the register empty, it
\* never reads the line status again after that read, and when exactly one
\* read showed the register full the call makes exactly two line status
\* reads and then exactly one write.
C12_OneRetry ==
    op = "write_byte" =>
        /\ \A i \in Writes :
              /\ i > 1
              /\ IsRead(log[i - 1], "LSR")
              /\ BitAnd(log[i - 1].v, THRE) # 0
        /\ \A i \in StatusReads : i = 1 /\ BitAnd(log[i].v, THRE) # 0
        /\ log # <<>> => pc \in {"write_byte_thr", "idle"}
        /\ pc = "idle" /\ polls = 1 =>
              /\ polls + Cardinality(StatusReads) = 2
              /\ Cardinality(Writes) = 1
              /\ Len(log) = 2

\* C12 witness: the second of two write_byte calls has returned after one
\* line status read that showed the holding register full.
C12_Witness ==
    /\ Returned("write_byte")
    /\ calls = 2
    /\ polls = 1
    /\ Len(log) = 2
    /\ IsWrite(log[2], "THR_DLAB")

\* C19: wait_idle(flags) returns only after it has observed what the flags
\* name. With TX-idle requested, its first line status read shows the transmit
\* shift register empty; with RX-idle requested, its last line status read
\* shows the receiver idle (no unread data); with both requested, both; with
\* no flag requested it returns without reading any register.
C19_WaitIdle ==
    Returned("wait_idle") =>
        /\ BitAnd(status, UART_TX_IDLE) # 0 =>
              /\ log # <<>>
              /\ IsRead(log[1], "LSR")
              /\ BitAnd(log[1].v, TMTY) # 0
        /\ BitAnd(status, UART_RX_IDLE) # 0 =>
              /\ log # <<>>
              /\ IsRead(log[Len(log)], "LSR")
              /\ BitAnd(log[Len(log)].v, RDR) = 0
        /\ status = 0 => log = <<>> /\ polls = 0

\* Contexts that are inside an operation on the instance.
Inside == {c \in DOMAIN ctx : ctx[c].pc # "idle"}

\* C20: at most one execution context is inside an operation on the instance
\* at any time.
C20_OneContextInside == Cardinality(Inside) <= 1

\* C21: when several contexts run write_byte on the same instance, every
\* write to the transmit holding register is made while the line status still
\* shows the holding register empty, and the transmitter takes the byte.
C21_SharedWriteHasRoom ==
    [][\A c \in DOMAIN ctx :
          ctx[c].pc = "write_byte_thr" /\ ctx'[c].pc = "idle" =>
              /\ BitAnd(LSR, THRE) # 0
              /\ txFifo' = Append(txFifo, ctx[c].byte)]_vars

\* C22: the five instances are independent. The five register blocks are
\* pairwise disjoint; an operation on an instance accesses only addresses of
\* the block of that instance and enables only the clock of that instance; and
\* however operations on different instances interleave, the block of each
\* instance holds what it would hold had that instance been operated alone.
C22_InstancesIndependent ==
    /\ \A i, j \in Instances : i # j => Block(i) \cap Block(j) = {}
    /\ \A i, j \in Instances : i # j => ClockOf(i) # ClockOf(j)
    /\ \A i \in Instances : bus.touched[i] \subseteq Block(i)
    /\ bus.clk = {ClockOf(i) : i \in {j \in Instances : bus.at[j] > 0}}
    /\ \A i \in Instances : \A c \in Cells : bus.mem[Base(i) + c] = bus.alone[i][c]

\* init has run to its end on the two instances with adjacent blocks, and the
\* two blocks ended up different.
C22_Witness ==
    /\ bus # NoBus
    /\ bus.active = {"A", "B"}
    /\ bus.at["A"] = Len(InitAccesses)
    /\ bus.at["B"] = Len(InitAccesses)
    /\ bus.mem[Base("A") + Offset("IIR_FCR")] # bus.mem[Base("B") + Offset("IIR_FCR")]

\* C23: write_byte and read_byte access the holding register (the register
\* at offset 0) only on an instance on which an init has returned.
C23_TransferOnlyWhenReady ==
    op \in {"write_byte", "read_byte"} =>
        \A i \in 1..Len(log) : log[i].reg = "THR_DLAB" => ready

\* C24: whenever init has returned, the line control register holds exactly
\* WORD_LENGTH_8 (8 data bits, one stop bit, no parity, no break, DLAB
\* clear), whatever it held before the call.
C24_LineControlAfterInit ==
    Returned("init") => lcr = WORD_LENGTH_8

\* init has returned on an instance whose line control register held 0x9B
\* (DLAB, parity and stop bits set) before: of the initial register states
\* only that one keeps init from clearing the interrupt enable register.
C24_Witness ==
    /\ Returned("init")
    /\ calls = 1
    /\ ier # 0
    /\ lcr = WORD_LENGTH_8

\* C25: whenever init has returned, the interrupt enable register and the
\* modem control register hold 0, for every register state init started
\* from, one with DLAB set included.
C25_InterruptsOffAfterInit ==
    Returned("init") => ier = 0 /\ mcr = 0

\* C26: the first thing init does is enable the clock; it writes no register
\* before a read of the line status register has shown TMTY set; and it does
\* not return without such a read. As long as the hardware does not set the
\* bit, init has written nothing and has not returned.
C26_InitWaitsForIdle ==
    op = "init" =>
        /\ log # <<>> => log[1].k = "clk" /\ clockOn
        /\ \A i \in 1..Len(log) :
              log[i].k = "w" =>
                  \E j \in 1..(i - 1) :
                      IsRead(log[j], "LSR") /\ BitAnd(log[j].v, TMTY) # 0
        /\ pc = "idle" =>
              \E j \in 1..Len(log) :
                  IsRead(log[j], "LSR") /\ BitAnd(log[j].v, TMTY) # 0

\* init found the transmitter busy, polled again, and has made its first
\* write after the transmitter went idle.
C26_Witness ==
    /\ op = "init"
    /\ pc = "init_mcr"
    /\ polls > 0
    /\ Len(log) = 3
    /\ IsWrite(log[3], "IER_DLAB")

\* C27: usleep(d) returns only after the counter has advanced by at least d
\* ticks since usleep read its start, also when the counter wraps past 2^32
\* in between: every evaluation of the loop condition computes the elapsed
\* time as (now - start) mod 2^32, which is the number of ticks since the
\* start, so that a wrap neither ends the sleep early nor extends it.
C27_SleepAcrossWrap ==
    /\ timer.pc # "panic"
    /\ timer.polled => U32Value(timer.elapsed) = timer.seen
    /\ timer.polled /\ timer.pc = "idle" => timer.seen >= timer.duration

\* The accesses logged after the last write to the line control register.
SinceLineControl ==
    LET ws == {i \in 1..Len(log) : IsWrite(log[i], "LCR")}
        j == CHOOSE i \in ws : \A k \in ws : k <= i
    IN  IF ws = {} THEN log ELSE SubSeq(log, j + 1, Len(log))

IsPrefix(s, u) == Len(s) <= Len(u) /\ s = SubSeq(u, 1, Len(s))

\* In every state: DLAB is set only inside init, after the write to the line
\* control register that sets it and before the one that clears it; what init
\* has accessed since it set DLAB is the low divisor byte written to the
\* first register, then the high byte written to the second, then the read
\* of the line control register; write_byte and read_byte are at their access
\* to the holding register only with DLAB clear.
DlabWindow ==
    /\ DlabSet =>
          /\ op = "init"
          /\ pc \in {"init_dll", "init_dlm", "init_lcr_read", "init_lcr_write"}
          /\ IsPrefix(SinceLineControl,
                      << [k |-> "w", reg |-> "THR_DLAB", v |-> baud_rate],
                         [k |-> "w", reg |-> "IER_DLAB", v |-> baud_rate \div 256],
                         [k |-> "r", reg |-> "LCR", v |-> line_control] >>)
    /\ pc \in {"write_byte_thr", "read_byte_rbr"} => ~DlabSet

\* C28: on an instance that starts with DLAB clear, DLAB is set only in the
\* window of init between the two writes to the line control register, the
\* two divisor bytes are the only writes to the first two registers in that
\* window, and every access of write_byte and read_byte to the holding
\* register is made with DLAB clear.
C28_ModalRegisters ==
    (~DlabSet) => []DlabWindow

\* init, on an instance that started with DLAB clear, has written both
\* divisor bytes and DLAB is still set.
C28_Witness ==
    /\ DlabSet
    /\ op = "init"
    /\ pc = "init_lcr_read"
    /\ ier = 0
    /\ Len(SinceLineControl) = 2

\* What init does from its write that clears DLAB on, as kinds of access.
BringUpOrder ==
    << <<"w", "LCR">>, <<"r", "SPR">>, <<"sleep", "usleep">>,
       <<"w", "IIR_FCR">>, <<"r", "SPR">>, <<"sleep", "usleep">>,
       <<"r", "LSR">>, <<"r", "IIR_FCR">>, <<"w", "IIR_FCR">>,
       <<"sleep", "usleep">>, <<"r", "LSR">>, <<"r", "LSR">> >>

\* The accesses of init from its second write to the line control register on.
BringUp ==
    LET ws == {i \in 1..Len(log) : IsWrite(log[i], "LCR")}
    IN  IF Cardinality(ws) < 2 THEN <<>>
        ELSE SubSeq(log, CHOOSE i \in ws : \A k \in ws : k <= i, Len(log))

\* C29: from clearing DLAB on, init proceeds in this order: the write that
\* clears DLAB, a read of the scratch register, a sleep of three symbols, the
\* write of FIFO enable, a read of the scratch register, a sleep of three
\* cycles, a line status read that shows the transmitter idle, the read of
\* the FIFO register and the write that adds receive clear and transmit
\* clear, a sleep of 32 cycles, and the line status reads of the final wait.
\* The FIFO clear is never written before the transmitter was seen idle after
\* the FIFO enable, and init does not return before the 32-cycle sleep.
C29_BringUpOrder ==
    op = "init" =>
        LET s == BringUp
        IN  /\ Len(s) <= Len(BringUpOrder)
            /\ \A i \in 1..Len(s) : <<s[i].k, s[i].reg>> = BringUpOrder[i]
            /\ Len(s) >= 1 => BitAnd(s[1].v, DLAB) = 0
            /\ Len(s) >= 3 => s[3].v = wait_symbols(baud, 3)
            /\ Len(s) >= 4 => s[4].v = FCR_EN_FIFO
            /\ Len(s) >= 6 => s[6].v = wait_cycles(baud, 3)
            /\ Len(s) >= 7 => BitAnd(s[7].v, TMTY) # 0
            /\ Len(s) >= 9 => s[9].v = BitOr(s[8].v, BitOr(RX_CLR, TX_CLR))
            /\ Len(s) >= 10 => s[10].v = wait_cycles(baud, 32)
            /\ Len(s) >= 11 => BitAnd(s[11].v, TMTY) # 0
            /\ pc = "idle" => Len(s) = Len(BringUpOrder)

\* init has returned after the whole bring-up, in which the transmitter was
\* found busy at least once and the FIFO register read as 0x44.
C29_Witness ==
    /\ Returned("init")
    /\ Len(BringUp) = Len(BringUpOrder)
    /\ BringUp[8].v = 68
    /\ polls > 0

\* C30: for every baud rate from 300 to 12,500,000 the divisor init computes
\* lies in 1..65535, and when init has returned the two 8-bit divisor latches
\* hold it exactly: high latch * 256 + low latch is the computed divisor.
C30_LatchesHoldDivisor ==
    Returned("init") /\ baud \in MinBaud..MaxBaud =>
        /\ baud_rate \in 1..65535
        /\ dlm * 256 + dll = baud_rate

\* C31: msleep(d) returns only after at least d milliseconds have passed on
\* the real-time clock since it read its start, whatever the starting time,
\* a sleep that spans the end of a second included.
C31_SleepAcrossSecond ==
    timer.pc = "idle" /\ timer.polled => timer.seen >= timer.duration

\* C32: dsi_wait stops polling only when the masked bits of the register
\* have read as zero or at least `timeout` microseconds have passed since it
\* started, also when the counter wraps past 2^32 during the wait: it does
\* not give up early, it does not go on polling once the timeout has passed,
\* and it always finishes with a sleep of 5 microseconds.
C32_DsiWaitAcrossWrap ==
    /\ timer.pc # "panic"
    /\ timer.stopped.busy => timer.stopped.ticks >= timer.timeout
    /\ ~timer.late
    /\ timer.finished => timer.slept = 5

\* C33: write_char(c) returns Ok(c), draws the glyph of c and advances the
\* cursor x by 8 for every character c with code 32..126; for the line feed
\* it does new_line and returns Ok; for every other character it returns Err
\* without drawing and without moving the cursor; and it never fails with a
\* font table index out of range.
C33_WriteChar ==
    LET l == writer.last
    IN  /\ l.result # "panic"
        /\ l.c \in 32..126 => l.result = "ok" /\ l.row = l.c /\ l.dx = 8
        /\ l.c = 10 => l.result = "ok" /\ l.row = -1 /\ writer.x = 0
        /\ l.c \in (Characters \ (32..126)) \ {10} =>
              l.result = "err" /\ l.row = -1 /\ l.dx = 0

\* C34: after any sequence of write_char and new_line calls the cursor is
\* inside the framebuffer: x is a multiple of 8 with x + 8 <= 720, y is a
\* multiple of 8 with y <= 1272.
C34_CursorInside ==
    /\ writer.x % 8 = 0
    /\ writer.x + 8 <= FRAMEBUFFER_WIDTH
    /\ writer.y % 8 = 0
    /\ writer.y <= FRAMEBUFFER_HEIGHT - 8

\* Positions in the log of the fuse call of reads of the control register
\* that showed STATE_IDLE, and of writes to the control register.
FuseIdleReads ==
    {i \in 1..Len(fuse.log) :
        /\ fuse.log[i].k = "r" /\ fuse.log[i].reg = "ctrl"
        /\ BitAnd(fuse.log[i].v, STATE_MASK) = STATE_IDLE}

FuseCommands ==
    {i \in 1..Len(fuse.log) : fuse.log[i].k = "w" /\ fuse.log[i].reg = "ctrl"}

\* C35: hardware_read, hardware_write and hardware_sense issue their command
\* only after a read of the control register has shown STATE_IDLE; the value
\* they write to the control register has the command code (1 read, 2 write,
\* 3 sense) in its low two bits and every other bit as just read; they
\* return only after STATE_IDLE has been read again after the command.
\* hardware_read writes the address before it issues the command and reads
\* the result register only after that second idle observation.
C35_FuseProtocol ==
    fuse.op # "none" =>
        /\ \A i \in FuseCommands :
              /\ \E j \in FuseIdleReads : j < i
              /\ i > 1
              /\ fuse.log[i - 1].k = "r" /\ fuse.log[i - 1].reg = "ctrl"
              /\ BitAnd(fuse.log[i].v, CMD_MASK) = FuseCode(fuse.op)
              /\ BitClear(fuse.log[i].v, CMD_MASK) = BitClear(fuse.log[i - 1].v, CMD_MASK)
        /\ Cardinality(FuseCommands) <= 1
        /\ fuse.pc = "idle" =>
              \E i \in FuseCommands : \E j \in FuseIdleReads : i < j
        /\ fuse.op = "hardware_read" =>
              /\ \A i \in FuseCommands :
                    \E j \in 1..(i - 1) :
                        fuse.log[j] = [k |-> "w", reg |-> "reg_addr", v |-> fuse.address]
              /\ \A n \in 1..Len(fuse.log) :
                    fuse.log[n].reg = "reg_read" =>
                        \E i \in FuseCommands : \E j \in FuseIdleReads : i < j /\ j < n

\* hardware_read has returned the fuse at its address, after it found the
\* controller busy at least once, on a control register that held the
\* command of an earlier operation and a further bit.
C35_Witness ==
    /\ fuse # NoFuse
    /\ fuse.op = "hardware_read"
    /\ fuse.pc = "idle"
    /\ fuse.spins > 0
    /\ fuse.address = 1
    /\ fuse.result = fuse.array[1]
    /\ fuse.ctrl = 256 + FUSE_READ

\* The four pin registers of each of the uarts A to D, and what
\* configure_uart is to write to them, in order.
UartPins ==
    [ A |-> <<"uart1_tx", "uart1_rx", "uart1_rts", "uart1_cts">>,
      B |-> <<"uart2_tx", "uart2_rx", "uart2_rts", "uart2_cts">>,
      C |-> <<"uart3_tx", "uart3_rx", "uart3_rts", "uart3_cts">>,
      D |-> <<"uart4_tx", "uart4_rx", "uart4_rts", "uart4_cts">> ]

UartPinValues == <<0, BitOr(INPUT, PULL_UP), 0, BitOr(INPUT, PULL_DOWN)>>

\* C36: configure_uart for UART A, B, C or D writes exactly the four pin
\* registers of that uart (tx = 0, rx = INPUT | PULL_UP, rts = 0,
\* cts = INPUT | PULL_DOWN) and leaves every other pin register as it was;
\* for UART E and for a descriptor that is none of the five instances it
\* writes no register.
C36_ConfigureUart ==
    pinmux.calls > 0 =>
        LET known == {i \in {"A", "B", "C", "D"} : pinmux.uart = Uart(i)}
            expected ==
                IF known = {} THEN <<>>
                ELSE LET i == CHOOSE i \in known : TRUE
                     IN  [n \in 1..4 |-> <<UartPins[i][n], UartPinValues[n]>>]
        IN  /\ IsPrefix(pinmux.written, expected)
            /\ pinmux.pc = "idle" => pinmux.written = expected
            /\ \A r \in PinRegisters :
                  IF \E n \in 1..Len(pinmux.written) : pinmux.written[n][1] = r
                  THEN \E n \in 1..Len(pinmux.written) : pinmux.written[n] = <<r, pinmux.regs[r]>>
                  ELSE pinmux.regs[r] = pinmux.before[r]

\* configure_uart has returned for UART B, as the second call, on pin
\* registers that held another configuration; the first call left the pins
\* of UART A as they were.
C36_Witness ==
    /\ pinmux # NoPinmux
    /\ pinmux.pc = "idle"
    /\ pinmux.calls = 2
    /\ pinmux.uart = Uart("B")
    /\ Len(pinmux.written) = 4
    /\ pinmux.regs["uart1_tx"] = BitOr(TRISTATE, PULL_DOWN)
    /\ pinmux.regs["uart2_rx"] = BitOr(INPUT, PULL_UP)

\* ------------------------------------------------------------- fair runs
\* The processor keeps executing the driver and the transmitter keeps
\* shifting; the caller and the line are free to stay silent.

Driver ==
    \/ init \/ wait_idle \/ wait_transmit \/ wait_receive
    \/ write_byte \/ read_byte \/ read \/ write_str

FairSpec ==
    /\ Init
    /\ [][Next]_vars
    /\ WF_vars(Driver)
    /\ WF_vars(hw_tx_load)
    /\ WF_vars(hw_tx_done)

LoopFairSpec ==
    /\ LoopInit
    /\ [][LoopNext]_vars
    /\ WF_vars(Driver)
    /\ WF_vars(hw_tx_load)
    /\ WF_vars(hw_loopback)

====
